---- MODULE Spec2Model ----
(***************************************************************************)
(* Model of the gtm ticket manager: the seats / games / game_tickets /     *)
(* ticket_requests tables, the SQL statements of crates/db/src/lib.rs as   *)
(* operators over those tables, and the HTTP handlers of                   *)
(* crates/app/src/main.rs as processes whose steps are single statements.  *)
(* Every statement is one atomic step (the store executes one statement    *)
(* atomically); a handler that issues several statements holds no          *)
(* transaction, so other handlers' statements interleave between them.     *)
(***************************************************************************)
EXTENDS Integers, Sequences, FiniteSets, TLC

VARIABLES
    seats,          \* seats table: set of seat ids
    nextSeatId,     \* id sequence of seats
    games,          \* games table: set of [game_pk, home_team_name, status_code]
    tickets,        \* game_tickets table: set of rows
    nextTicketId,   \* id sequence of game_tickets
    requests,       \* ticket_requests table: set of rows
    nextRequestId,  \* id sequence of ticket_requests
    alloc,          \* api_admin_allocate calls in flight, per caller
    addSeat,        \* api_add_seat in flight: the seat inserted, tickets not yet generated
    delSeat,        \* delete_seat in flight: tickets deleted, seat not yet deleted
    scrape,         \* api_scrape_schedule in flight: games still to upsert
    creq,           \* api_my_requests_create in flight: entries still to process
    last,           \* the call that completed last: [op, args, ret]; a
                    \* create_ticket_request also records in "before" the
                    \* status of the row it found, if it found one
    genReturned,    \* history: sum of the counts returned by generate_tickets_*
    tickets0,       \* history: game_tickets as it was in the initial state
    seatBatch,      \* api_add_seat_batch in flight: the seat number reached, the
                    \* seat just inserted, and the seats collected for the response
    users,          \* users table: set of rows
    nextUserId      \* id sequence of users

vars == <<seats, nextSeatId, games, tickets, nextTicketId, requests, nextRequestId,
          alloc, addSeat, delSeat, scrape, creq, last, genReturned, tickets0, seatBatch, users, nextUserId>>

dbVars == <<seats, nextSeatId, games, tickets, nextTicketId, requests, nextRequestId>>

userVars == <<users, nextUserId>>

(***************************************************************************)
(* Bounds of the model, per specification.                                 *)
(***************************************************************************)
\* Spec (allocation engine over an imported inventory)
MaxSeat == 2        \* seats of the inventory: one ticket each per home game
MaxGame == 1        \* home games of the inventory
MaxUser == 2        \* user ids
MaxBatch == 2       \* entries in one allocate batch / one create-request batch
MaxApproved == 2    \* cap on seats_approved (it grows with every allocate call)
\* SpecInv (inventory store, from an empty database)
InvMaxSeat == 2     \* seat ids handed out
InvMaxGame == 1     \* game_pk values the schedule source delivers
InvMaxTicket == 3   \* ticket ids handed out
\* SpecReq (request ledger)
ReqMaxUser == 2     \* user ids
ReqMaxGame == 1     \* home games of the inventory
ReqMaxBatch == 1    \* entries in one create-request batch
ReqMaxApproved == 1 \* cap on seats_approved
\* SpecRace (allocate calls racing each other)
RaceMaxSeat == 2    \* seats of the inventory
RaceMaxUser == 2    \* user ids
\* SpecApprove (allocate calls approving the same request)
ApprMaxSeat == 3    \* seats of the inventory
ApprMaxBatch == 2   \* entries in one allocate batch
\* SpecLedger (one game, one member, every operation on tickets and requests)
LedMaxSeat == 2     \* seats of the inventory
LedMaxApproved == 2 \* cap on seats_approved
\* SpecBatch (one create-request batch)
BatchMaxLen == 2    \* entries in the batch
BatchMaxGame == 2   \* home games of the inventory
\* SpecTickets (every writer of game_tickets)
TixMaxSeat == 2     \* seats of the inventory
TixMaxUser == 2     \* user ids
\* SpecSeats (seats added one by one and in batches)
SeatsMaxFirst == 2  \* a call to add seats starts while the next seat id is at most this
\* SpecRefs (calls that name a seat or a game that does not exist)
RefMaxSeat == 2     \* seat ids handed out
RefMaxGame == 1     \* home games of the schedule; game_pk RefMaxGame + 1 is unknown
\* SpecAdmin (allocate and revoke by any caller, for known and unknown users)
AdmMaxSeat == 2     \* seats of the inventory
AdmMaxUser == 1     \* users registered at the start; user id AdmMaxUser + 1 is not
AdmMaxBatch == 2    \* entries in one allocate batch
AdmMaxApproved == 2 \* cap on seats_approved
\* SpecUsers (sign-ins and members' own operations)
UsrMaxUser == 2     \* subjects that sign in
\* SpecImport (schedule imports over a growing seat inventory)
ImpMaxSeat == 2     \* seat ids handed out
ImpMaxGame == 2     \* game_pk values the schedule source delivers
\* SpecSummary (the admin allocation summary)
SumMaxSeat == 2     \* seat ids handed out
SumMaxUser == 2     \* user ids
SumMaxApproved == 1 \* cap on seats_approved

(***************************************************************************)
(* Option<T>: None / Some(x)                                               *)
(***************************************************************************)
None == <<>>
Some(x) == <<x>>

\* crates/db/src/lib.rs:219
GIANTS_TEAM_NAME == "San Francisco Giants"
OtherTeamName == "Los Angeles Dodgers"
TeamNames == {GIANTS_TEAM_NAME, OtherTeamName}

\* api_my_requests_create / api_my_requests_update accept 1..4
MinSeatsRequested == 1
MaxSeatsRequested == 4

\* api_add_seat_batch refuses a range with seat_end - seat_start >= 50
BatchSpanLimit == 50

NoteInputs == {None, Some("n")}
GameStatusCodes == {"S", "F"}
TicketStatusInputs == {"available", "assigned", "sold"}

Call(op, args, ret) == [op |-> op, args |-> args, ret |-> ret]

(***************************************************************************)
(* Schema (migrations): constraints and column defaults.                   *)
(***************************************************************************)
\* game_tickets is unique on (seat_id, game_pk)
ticket_conflict(T, game_pk, seat_id) ==
    \E t \in T : t.game_pk = game_pk /\ t.seat_id = seat_id

\* game_tickets.seat_id references seats
fk_seat_exists(S, seat_id) == seat_id \in S

\* ticket_requests.game_pk references games
fk_game_exists(G, game_pk) == \E g \in G : g.game_pk = game_pk

\* column defaults of ticket_requests
DEFAULT_REQUEST_STATUS == "pending"
DEFAULT_SEATS_APPROVED == 0

(***************************************************************************)
(* Users                                                                   *)
(***************************************************************************)
\* users is unique on auth0_sub
user_conflict(U, auth0_sub) == \E u \in U : u.auth0_sub = auth0_sub

\* game_tickets.assigned_to references users
fk_user_exists(U, user_id) == \E u \in U : u.id = user_id

\* the same INSERT without its ON CONFLICT clause, over a table that is not
\* unique on auth0_sub
upsert_user_insert_only(U, next, auth0_sub, email, name, role) ==
    LET row == [id |-> next, auth0_sub |-> auth0_sub, email |-> email, name |-> name,
                role |-> role]
    IN  [users |-> U \cup {row}, next |-> next + 1, ret |-> row]

\* the same INSERT with an update list that leaves role alone
upsert_user_keep_role(U, next, auth0_sub, email, name, role) ==
    IF user_conflict(U, auth0_sub)
    THEN LET old == CHOOSE u \in U : u.auth0_sub = auth0_sub
             new == [old EXCEPT !.email = email, !.name = name]
         IN  [users |-> (U \ {old}) \cup {new}, next |-> next, ret |-> new]
    ELSE LET row == [id |-> next, auth0_sub |-> auth0_sub, email |-> email, name |-> name,
                     role |-> role]
         IN  [users |-> U \cup {row}, next |-> next + 1, ret |-> row]

\* INSERT INTO users ... ON CONFLICT(auth0_sub) DO UPDATE SET email, name, role
\* RETURNING id, auth0_sub, email, name, role
upsert_user(U, next, auth0_sub, email, name, role) ==
    IF user_conflict(U, auth0_sub)
    THEN LET old == CHOOSE u \in U : u.auth0_sub = auth0_sub
             new == [old EXCEPT !.email = email, !.name = name, !.role = role]
         IN  [users |-> (U \ {old}) \cup {new}, next |-> next, ret |-> new]
    ELSE LET row == [id |-> next, auth0_sub |-> auth0_sub, email |-> email, name |-> name,
                     role |-> role]
         IN  [users |-> U \cup {row}, next |-> next + 1, ret |-> row]

(***************************************************************************)
(* Seats                                                                   *)
(***************************************************************************)
\* INSERT INTO seats (section, row, seat, notes) VALUES (?, ?, ?, ?)
\* RETURNING id, section, row, seat, notes
add_seat(S, next, section, row, seat, notes) ==
    [seats |-> S \cup {next}, next |-> next + 1,
     ret |-> [id |-> next, section |-> section, row |-> row, seat |-> seat,
              notes |-> notes]]

(***************************************************************************)
(* Games                                                                   *)
(***************************************************************************)
\* the same INSERT with an update list that sets every column
upsert_game_overwrite(G, game) ==
    {g \in G : g.game_pk # game.game_pk} \cup {game}

\* INSERT ... ON CONFLICT(game_pk) DO UPDATE: the update list holds the
\* status/score columns, not home_team_name.
upsert_game(G, game) ==
    IF \E g \in G : g.game_pk = game.game_pk
    THEN {IF g.game_pk = game.game_pk
          THEN [g EXCEPT !.status_code = game.status_code]
          ELSE g : g \in G}
    ELSE G \cup {game}

HomeGames(G) == {g.game_pk : g \in {x \in G : x.home_team_name = GIANTS_TEAM_NAME}}

(***************************************************************************)
(* Game tickets                                                            *)
(***************************************************************************)
NewTicket(id, game_pk, seat_id) ==
    [id |-> id, game_pk |-> game_pk, seat_id |-> seat_id,
     status |-> "available", notes |-> None, assigned_to |-> None]

\* scan order of the SELECT that feeds the INSERT
PairBefore(p, q) == p[1] < q[1] \/ (p[1] = q[1] /\ p[2] <= q[2])

RECURSIVE insert_tickets(_, _, _)
\* inserts one row per <<game_pk, seat_id>> of pairs, ids from the sequence
insert_tickets(T, next, pairs) ==
    IF pairs = {} THEN [tickets |-> T, next |-> next]
    ELSE LET p == CHOOSE x \in pairs : \A y \in pairs : PairBefore(x, y)
         IN  insert_tickets(T \cup {NewTicket(next, p[1], p[2])}, next + 1, pairs \ {p})

\* the same INSERT without "ON CONFLICT DO NOTHING" over an unconstrained table
insert_always(T, next, S, cand) ==
    LET r == insert_tickets(T, next, cand)
    IN  [tickets |-> r.tickets, next |-> r.next, ret |-> Cardinality(cand), err |-> FALSE]

\* the same INSERT as an INSERT OR REPLACE: a conflicting row gives way to a
\* fresh one
insert_or_replace(T, next, S, cand) ==
    LET r == insert_tickets({t \in T : <<t.game_pk, t.seat_id>> \notin cand}, next, cand)
    IN  [tickets |-> r.tickets, next |-> r.next, ret |-> Cardinality(cand), err |-> FALSE]

\* INSERT INTO game_tickets SELECT ... ON CONFLICT DO NOTHING, over the
\* candidate rows cand; err when a candidate row breaks the foreign key.
insert_if_absent(T, next, S, cand) ==
    LET fresh == {p \in cand : ~ticket_conflict(T, p[1], p[2])}
    IN  IF \E p \in fresh : ~fk_seat_exists(S, p[2])
        THEN [tickets |-> T, next |-> next, ret |-> 0, err |-> TRUE]
        ELSE LET r == insert_tickets(T, next, fresh)
             IN  [tickets |-> r.tickets, next |-> r.next,
                  ret |-> Cardinality(fresh), err |-> FALSE]

generate_tickets_for_seat(T, next, G, S, seat_id) ==
    insert_if_absent(T, next, S, {<<g, seat_id>> : g \in HomeGames(G)})

generate_tickets_for_all_seats(T, next, G, S) ==
    insert_if_absent(T, next, S, HomeGames(G) \X S)

\* UPDATE game_tickets SET status = ?, notes = ? WHERE id = ?
update_ticket_status(T, ticket_id, status, notes) ==
    LET hit == {t \in T : t.id = ticket_id}
    IN  [tickets |-> (T \ hit) \cup
                     {[t EXCEPT !.status = status, !.notes = notes] : t \in hit},
         ret |-> hit # {}]

\* the same UPDATE without "AND status = 'available'": the last writer wins
assign_ticket_any_status(T, game_ticket_id, user_id) ==
    LET hit == {t \in T : t.id = game_ticket_id}
    IN  [tickets |-> (T \ hit) \cup
                     {[t EXCEPT !.assigned_to = Some(user_id), !.status = "assigned"] : t \in hit},
         ret |-> hit # {}]

\* UPDATE ... WHERE id = ? AND status = 'available'
assign_ticket(T, game_ticket_id, user_id) ==
    LET hit == {t \in T : t.id = game_ticket_id /\ t.status = "available"}
    IN  [tickets |-> (T \ hit) \cup
                     {[t EXCEPT !.assigned_to = Some(user_id), !.status = "assigned"] : t \in hit},
         ret |-> hit # {}]

\* the same UPDATE without "AND status = 'assigned'"
revoke_ticket_any_status(T, game_ticket_id) ==
    LET hit == {t \in T : t.id = game_ticket_id}
    IN  [tickets |-> (T \ hit) \cup
                     {[t EXCEPT !.assigned_to = None, !.status = "available"] : t \in hit},
         ret |-> hit # {}]

\* the same UPDATE with a SET list that leaves assigned_to alone
revoke_ticket_keep_holder(T, game_ticket_id) ==
    LET hit == {t \in T : t.id = game_ticket_id /\ t.status = "assigned"}
    IN  [tickets |-> (T \ hit) \cup {[t EXCEPT !.status = "available"] : t \in hit},
         ret |-> hit # {}]

\* UPDATE ... WHERE id = ? AND status = 'assigned'
revoke_ticket(T, game_ticket_id) ==
    LET hit == {t \in T : t.id = game_ticket_id /\ t.status = "assigned"}
    IN  [tickets |-> (T \ hit) \cup
                     {[t EXCEPT !.assigned_to = None, !.status = "available"] : t \in hit},
         ret |-> hit # {}]

\* the same UPDATE with a SET list that leaves status alone
release_tickets_for_game_keep_status(T, game_pk, user_id) ==
    LET hit == {t \in T : t.game_pk = game_pk /\ t.assigned_to = Some(user_id)}
    IN  [tickets |-> (T \ hit) \cup {[t EXCEPT !.assigned_to = None] : t \in hit},
         ret |-> Cardinality(hit)]

\* UPDATE ... WHERE game_pk = ? AND assigned_to = ?
release_tickets_for_game(T, game_pk, user_id) ==
    LET hit == {t \in T : t.game_pk = game_pk /\ t.assigned_to = Some(user_id)}
    IN  [tickets |-> (T \ hit) \cup
                     {[t EXCEPT !.assigned_to = None, !.status = "available"] : t \in hit},
         ret |-> Cardinality(hit)]

\* first statement of delete_seat: DELETE FROM game_tickets WHERE seat_id = ?
delete_seat_tickets(T, seat_id) == {t \in T : t.seat_id # seat_id}

\* second statement of delete_seat: DELETE FROM seats WHERE id = ?
\* (err: a game_tickets row still references the seat)
\* variant: the row is deleted whether or not tickets refer to it
delete_seat_row_unreferenced(S, T, seat_id) ==
    [seats |-> S \ {seat_id}, ret |-> seat_id \in S, err |-> FALSE]

delete_seat_row(S, T, seat_id) ==
    IF seat_id \in S /\ \E t \in T : t.seat_id = seat_id
    THEN [seats |-> S, ret |-> FALSE, err |-> TRUE]
    ELSE [seats |-> S \ {seat_id}, ret |-> seat_id \in S, err |-> FALSE]

(***************************************************************************)
(* Ticket requests                                                         *)
(***************************************************************************)
RequestFor(R, user_id, game_pk) ==
    {r \in R : r.user_id = user_id /\ r.game_pk = game_pk}

\* a plain INSERT, without the ON CONFLICT clause, over an unconstrained table
create_ticket_request_insert_only(R, next, G, user_id, game_pk, seats_requested, notes) ==
    LET row == [id |-> next, user_id |-> user_id, game_pk |-> game_pk,
                seats_requested |-> seats_requested,
                seats_approved |-> DEFAULT_SEATS_APPROVED,
                status |-> DEFAULT_REQUEST_STATUS, notes |-> notes]
    IN  IF ~fk_game_exists(G, game_pk)
        THEN [requests |-> R, next |-> next, ret |-> {}, err |-> TRUE]
        ELSE [requests |-> R \cup {row}, next |-> next + 1, ret |-> {row}, err |-> FALSE]

\* the upsert with "seats_approved = 0" added to its update list
create_ticket_request_reset_approved(R, next, G, user_id, game_pk, seats_requested, notes) ==
    LET hit == RequestFor(R, user_id, game_pk)
        upd(r) == [r EXCEPT !.seats_requested = seats_requested,
                            !.notes = notes,
                            !.seats_approved = DEFAULT_SEATS_APPROVED,
                            !.status = IF r.status = "withdrawn" THEN "pending"
                                       ELSE r.status]
        row == [id |-> next, user_id |-> user_id, game_pk |-> game_pk,
                seats_requested |-> seats_requested,
                seats_approved |-> DEFAULT_SEATS_APPROVED,
                status |-> DEFAULT_REQUEST_STATUS, notes |-> notes]
    IN  IF hit # {}
        THEN [requests |-> (R \ hit) \cup {upd(r) : r \in hit}, next |-> next,
              ret |-> {upd(r) : r \in hit}, err |-> FALSE]
        ELSE IF ~fk_game_exists(G, game_pk)
        THEN [requests |-> R, next |-> next, ret |-> {}, err |-> TRUE]
        ELSE [requests |-> R \cup {row}, next |-> next + 1, ret |-> {row}, err |-> FALSE]

\* the upsert with an update list that leaves status alone
\* variant: ON CONFLICT sets status = 'pending' whatever it was
create_ticket_request_always_pending(R, next, G, user_id, game_pk, seats_requested, notes) ==
    LET hit == RequestFor(R, user_id, game_pk)
        upd(r) == [r EXCEPT !.seats_requested = seats_requested, !.notes = notes,
                            !.status = "pending"]
        row == [id |-> next, user_id |-> user_id, game_pk |-> game_pk,
                seats_requested |-> seats_requested,
                seats_approved |-> DEFAULT_SEATS_APPROVED,
                status |-> DEFAULT_REQUEST_STATUS, notes |-> notes]
    IN  IF hit # {}
        THEN [requests |-> (R \ hit) \cup {upd(r) : r \in hit}, next |-> next,
              ret |-> {upd(r) : r \in hit}, err |-> FALSE]
        ELSE IF ~fk_game_exists(G, game_pk)
        THEN [requests |-> R, next |-> next, ret |-> {}, err |-> TRUE]
        ELSE [requests |-> R \cup {row}, next |-> next + 1, ret |-> {row}, err |-> FALSE]

create_ticket_request_keep_status(R, next, G, user_id, game_pk, seats_requested, notes) ==
    LET hit == RequestFor(R, user_id, game_pk)
        upd(r) == [r EXCEPT !.seats_requested = seats_requested, !.notes = notes]
        row == [id |-> next, user_id |-> user_id, game_pk |-> game_pk,
                seats_requested |-> seats_requested,
                seats_approved |-> DEFAULT_SEATS_APPROVED,
                status |-> DEFAULT_REQUEST_STATUS, notes |-> notes]
    IN  IF hit # {}
        THEN [requests |-> (R \ hit) \cup {upd(r) : r \in hit}, next |-> next,
              ret |-> {upd(r) : r \in hit}, err |-> FALSE]
        ELSE IF ~fk_game_exists(G, game_pk)
        THEN [requests |-> R, next |-> next, ret |-> {}, err |-> TRUE]
        ELSE [requests |-> R \cup {row}, next |-> next + 1, ret |-> {row}, err |-> FALSE]

\* INSERT ... ON CONFLICT(user_id, game_pk) DO UPDATE SET seats_requested,
\* notes, status = CASE WHEN status = 'withdrawn' THEN 'pending' ELSE status END
\* RETURNING the row
create_ticket_request(R, next, G, user_id, game_pk, seats_requested, notes) ==
    LET hit == RequestFor(R, user_id, game_pk)
        upd(r) == [r EXCEPT !.seats_requested = seats_requested,
                            !.notes = notes,
                            !.status = IF r.status = "withdrawn" THEN "pending"
                                       ELSE r.status]
        row == [id |-> next, user_id |-> user_id, game_pk |-> game_pk,
                seats_requested |-> seats_requested,
                seats_approved |-> DEFAULT_SEATS_APPROVED,
                status |-> DEFAULT_REQUEST_STATUS, notes |-> notes]
    IN  IF hit # {}
        THEN [requests |-> (R \ hit) \cup {upd(r) : r \in hit}, next |-> next,
              ret |-> {upd(r) : r \in hit}, err |-> FALSE]
        ELSE IF ~fk_game_exists(G, game_pk)
        THEN [requests |-> R, next |-> next, ret |-> {}, err |-> TRUE]
        ELSE [requests |-> R \cup {row}, next |-> next + 1,
              ret |-> {row}, err |-> FALSE]

\* the same UPDATE without "AND status = 'pending'"
update_ticket_request_any_status(R, request_id, user_id, seats_requested) ==
    LET hit == {r \in R : r.id = request_id /\ r.user_id = user_id}
    IN  [requests |-> (R \ hit) \cup
                      {[r EXCEPT !.seats_requested = seats_requested] : r \in hit},
         ret |-> hit # {}]

\* UPDATE ... SET seats_requested = ? WHERE id = ? AND user_id = ? AND status = 'pending'
update_ticket_request(R, request_id, user_id, seats_requested) ==
    LET hit == {r \in R : r.id = request_id /\ r.user_id = user_id /\ r.status = "pending"}
    IN  [requests |-> (R \ hit) \cup
                      {[r EXCEPT !.seats_requested = seats_requested] : r \in hit},
         ret |-> hit # {}]

\* the same UPDATE with "notes = NULL" added to its SET list
withdraw_ticket_request_clearing_notes(R, request_id, user_id) ==
    LET hit == {r \in R : r.id = request_id /\ r.user_id = user_id /\ r.status = "pending"}
    IN  [requests |-> (R \ hit) \cup
                      {[r EXCEPT !.status = "withdrawn", !.notes = None] : r \in hit},
         ret |-> hit # {}]

\* UPDATE ... SET status = 'withdrawn' WHERE id = ? AND user_id = ? AND status = 'pending'
withdraw_ticket_request(R, request_id, user_id) ==
    LET hit == {r \in R : r.id = request_id /\ r.user_id = user_id /\ r.status = "pending"}
    IN  [requests |-> (R \ hit) \cup {[r EXCEPT !.status = "withdrawn"] : r \in hit},
         ret |-> hit # {}]

\* the same UPDATE with "seats_approved = ?": the last writer's count stays
update_request_approval_overwrite(R, request_id, seats_approved, status) ==
    LET hit == {r \in R : r.id = request_id}
    IN  [requests |-> (R \ hit) \cup
                      {[r EXCEPT !.seats_approved = seats_approved,
                                 !.status = status] : r \in hit},
         ret |-> hit # {}]

\* UPDATE ... SET seats_approved = seats_approved + ?, status = ? WHERE id = ?
update_request_approval(R, request_id, seats_approved, status) ==
    LET hit == {r \in R : r.id = request_id}
    IN  [requests |-> (R \ hit) \cup
                      {[r EXCEPT !.seats_approved = r.seats_approved + seats_approved,
                                 !.status = status] : r \in hit},
         ret |-> hit # {}]

(***************************************************************************)
(* Allocation summary                                                      *)
(***************************************************************************)
RECURSIVE sum_seats_requested(_)
\* SUM(tr.seats_requested) over the rows R; COALESCE(..., 0) when R is empty
sum_seats_requested(R) ==
    IF R = {} THEN 0
    ELSE LET r == CHOOSE x \in R : TRUE
         IN  r.seats_requested + sum_seats_requested(R \ {r})

\* one row of the summary: the aggregates over the tickets joined to game
\* game_pk, and the subquery over the requests Q of that game
summary_row(T, Q, game_pk) ==
    [game_pk |-> game_pk,
     total_seats |-> Cardinality({t \in T : t.game_pk = game_pk}),
     assigned |-> Cardinality({t \in T : t.game_pk = game_pk /\ t.status = "assigned"}),
     available |-> Cardinality({t \in T : t.game_pk = game_pk /\ t.status = "available"}),
     total_requested |-> sum_seats_requested(Q)]

\* the same SELECT with a subquery that lacks "AND tr.status = 'pending'"
allocation_summary_every_status(G, T, R) ==
    {summary_row(T, {r \in R : r.game_pk = g}, g) :
        g \in {x \in HomeGames(G) : \E t \in T : t.game_pk = x}}

\* SELECT ... FROM games g JOIN game_tickets gt ON gt.game_pk = g.game_pk
\* WHERE g.home_team_name = ? GROUP BY g.game_pk: the inner join yields a
\* group only for a game that has a ticket (the ORDER BY is left out: the
\* rows are a set)
allocation_summary(G, T, R) ==
    {summary_row(T, {r \in R : r.game_pk = g /\ r.status = "pending"}, g) :
        g \in {x \in HomeGames(G) : \E t \in T : t.game_pk = x}}

\* oversubscribed: total_requested >= available
OversubscribedOrEqual(total_requested, available) == total_requested >= available

\* oversubscribed: total_requested > available
Oversubscribed(total_requested, available) == total_requested > available

(***************************************************************************)
(* Inputs                                                                  *)
(***************************************************************************)
\* boundary values around the accepted range of seats_requested
SeatsInputs == {MinSeatsRequested - 1, MinSeatsRequested,
                MaxSeatsRequested, MaxSeatsRequested + 1}
AllocCallers == {"a1", "a2"}

GameInputs(pks, codes) == [game_pk : pks, home_team_name : TeamNames, status_code : codes]
RequestIdInputs(ids) == {None} \cup {Some(x) : x \in ids}

\* subject identifiers of the identity provider, by number
Subjects == <<"auth0|1", "auth0|2", "auth0|3", "auth0|4">>
\* the email claim: absent, or one of two addresses
EmailInputs == {None, Some("a@example.com"), Some("b@example.com")}
\* the roles claim
RolesInputs == {{}, {"member"}, {"admin"}}

\* a missing (or null), an empty and a non-empty value of a seat field
SeatFieldInputs == {None, Some(""), Some("A")}
\* range ends around the span limit, for ranges starting at 1 or 2
SeatStartInputs == {1, 2}
SeatEndInputs == {0, 1, 2, BatchSpanLimit - 1, BatchSpanLimit, BatchSpanLimit + 1,
                  BatchSpanLimit + 2}

IdleAlloc == [pc |-> "idle", left |-> 0, approvals |-> <<>>, count |-> 0]

(***************************************************************************)
(* Handlers of crates/app/src/main.rs                                      *)
(***************************************************************************)
\* --- resolve_user: the first statement of every authenticated handler
\* --- (the name claim is left at its default)
ResolveUser(sub, email, roles) ==
    /\ LET r == upsert_user(users, nextUserId, sub,
                            IF email = None THEN "unknown@example.com" ELSE email[1],
                            "Unknown",
                            IF "admin" \in roles THEN "admin" ELSE "member")
       IN  /\ users' = r.users
           /\ nextUserId' = r.next
           /\ last' = Call("upsert_user", <<sub, email, roles>>, r.ret)
    /\ UNCHANGED <<seats, nextSeatId, games, tickets, nextTicketId, requests, nextRequestId,
                   alloc, addSeat, delSeat, scrape, creq, genReturned, tickets0, seatBatch>>

\* --- api_add_seat: add_seat, then generate_tickets_for_seat ---
AddSeatInsert ==
    /\ addSeat = None
    /\ seats' = seats \cup {nextSeatId}
    /\ nextSeatId' = nextSeatId + 1
    /\ addSeat' = Some(nextSeatId)
    /\ last' = Call("add_seat", <<>>, nextSeatId)
    /\ UNCHANGED <<games, tickets, nextTicketId, requests, nextRequestId,
                   alloc, delSeat, scrape, creq, genReturned, tickets0, seatBatch, users, nextUserId>>

AddSeatGenerate ==
    /\ addSeat # None
    /\ LET r == generate_tickets_for_seat(tickets, nextTicketId, games, seats, addSeat[1])
       IN  /\ tickets' = r.tickets
           /\ nextTicketId' = r.next
           /\ genReturned' = genReturned + r.ret
           /\ last' = IF r.err
                      THEN Call("api_add_seat", <<addSeat[1]>>, "INTERNAL_SERVER_ERROR")
                      ELSE Call("generate_tickets_for_seat", <<addSeat[1]>>, r.ret)
    /\ addSeat' = None
    /\ UNCHANGED <<seats, nextSeatId, games, requests, nextRequestId,
                   alloc, delSeat, scrape, creq, tickets0, seatBatch, users, nextUserId>>

\* --- api_add_seat with its request body: Json<AddSeatRequest> refuses a
\* --- body in which section, row or seat is missing or null (None) before the
\* --- handler runs; any string, the empty one included, goes to add_seat
ApiAddSeat(section, row, seat) ==
    /\ addSeat = None
    /\ IF None \in {section, row, seat}
       THEN /\ last' = Call("api_add_seat", <<section, row, seat>>, "UNPROCESSABLE_ENTITY")
            /\ UNCHANGED <<seats, nextSeatId, addSeat>>
       ELSE LET r == add_seat(seats, nextSeatId, section[1], row[1], seat[1], None)
            IN  /\ seats' = r.seats
                /\ nextSeatId' = r.next
                /\ addSeat' = Some(r.ret.id)
                /\ last' = Call("add_seat", <<section, row, seat>>, r.ret.id)
    /\ UNCHANGED <<games, tickets, nextTicketId, requests, nextRequestId,
                   alloc, delSeat, scrape, creq, genReturned, tickets0, seatBatch, users, nextUserId>>

\* --- api_add_seat_batch: the two range checks, then per seat number
\* --- add_seat and generate_tickets_for_seat
\* the checks as a range holding BatchSpanLimit seats or more
BatchRangeRejectedAtLimit(seat_start, seat_end) ==
    IF seat_start > seat_end THEN TRUE
    ELSE seat_end - seat_start + 1 >= BatchSpanLimit

BatchRangeRejected(seat_start, seat_end) ==
    IF seat_start > seat_end THEN TRUE
    ELSE seat_end - seat_start >= BatchSpanLimit

AddSeatBatchStart(seat_start, seat_end) ==
    /\ seatBatch = None
    /\ IF BatchRangeRejected(seat_start, seat_end)
       THEN /\ last' = Call("api_add_seat_batch", <<seat_start, seat_end>>, "BAD_REQUEST")
            /\ UNCHANGED seatBatch
       ELSE /\ seatBatch' = Some([seat_start |-> seat_start, seat_end |-> seat_end,
                                  n |-> seat_start, seat |-> None, seats |-> <<>>])
            /\ UNCHANGED last
    /\ UNCHANGED <<seats, nextSeatId, games, tickets, nextTicketId, requests, nextRequestId,
                   alloc, addSeat, delSeat, scrape, creq, genReturned, tickets0, users, nextUserId>>

AddSeatBatchInsert ==
    /\ seatBatch # None /\ seatBatch[1].seat = None
    /\ LET b == seatBatch[1]
           r == add_seat(seats, nextSeatId, "S", "R", ToString(b.n), None)
       IN  /\ seats' = r.seats
           /\ nextSeatId' = r.next
           /\ seatBatch' = Some([b EXCEPT !.seat = Some(r.ret)])
           /\ last' = Call("add_seat", <<"S", "R", ToString(b.n)>>, r.ret.id)
    /\ UNCHANGED <<games, tickets, nextTicketId, requests, nextRequestId,
                   alloc, addSeat, delSeat, scrape, creq, genReturned, tickets0, users, nextUserId>>

AddSeatBatchGenerate ==
    /\ seatBatch # None /\ seatBatch[1].seat # None
    /\ LET b == seatBatch[1]
           seat == b.seat[1]
           r == generate_tickets_for_seat(tickets, nextTicketId, games, seats, seat.id)
           args == <<b.seat_start, b.seat_end>>
       IN  IF r.err
           THEN /\ seatBatch' = None
                /\ last' = Call("api_add_seat_batch", args, "INTERNAL_SERVER_ERROR")
                /\ UNCHANGED <<tickets, nextTicketId, genReturned>>
           ELSE /\ tickets' = r.tickets
                /\ nextTicketId' = r.next
                /\ genReturned' = genReturned + r.ret
                /\ IF b.n = b.seat_end
                   THEN /\ seatBatch' = None
                        /\ last' = [op |-> "api_add_seat_batch", args |-> args, ret |-> "OK",
                                     seats |-> Append(b.seats, seat)]
                   ELSE /\ seatBatch' = Some([b EXCEPT !.n = b.n + 1, !.seat = None,
                                                       !.seats = Append(b.seats, seat)])
                        /\ last' = Call("generate_tickets_for_seat", <<seat.id>>, r.ret)
    /\ UNCHANGED <<seats, nextSeatId, games, requests, nextRequestId,
                   alloc, addSeat, delSeat, scrape, creq, tickets0, users, nextUserId>>

\* --- api_delete_seat: delete_seat issues two DELETE statements ---
DeleteSeatTickets(seat_id) ==
    /\ delSeat = None
    /\ tickets' = delete_seat_tickets(tickets, seat_id)
    /\ delSeat' = Some(seat_id)
    /\ last' = Call("delete_seat_tickets", <<seat_id>>, TRUE)
    /\ UNCHANGED <<seats, nextSeatId, games, nextTicketId, requests, nextRequestId,
                   alloc, addSeat, scrape, creq, genReturned, tickets0, seatBatch, users, nextUserId>>

DeleteSeatRow ==
    /\ delSeat # None
    /\ LET r == delete_seat_row(seats, tickets, delSeat[1])
       IN  /\ seats' = r.seats
           /\ last' = IF r.err
                      THEN Call("api_delete_seat", <<delSeat[1]>>, "INTERNAL_SERVER_ERROR")
                      ELSE Call("delete_seat", <<delSeat[1]>>, r.ret)
    /\ delSeat' = None
    /\ UNCHANGED <<nextSeatId, games, tickets, nextTicketId, requests, nextRequestId,
                   alloc, addSeat, scrape, creq, genReturned, tickets0, seatBatch, users, nextUserId>>

\* --- api_scrape_schedule: upsert_game per fetched game, then
\* --- generate_tickets_for_all_seats (the fetched games are drawn one by one)
ScrapeStart ==
    /\ scrape = "idle"
    /\ scrape' = "upsert"
    /\ UNCHANGED <<seats, nextSeatId, games, tickets, nextTicketId, requests,
                   nextRequestId, alloc, addSeat, delSeat, creq, last, genReturned, tickets0, seatBatch, users, nextUserId>>

ScrapeUpsert(game) ==
    /\ scrape = "upsert"
    /\ games' = upsert_game(games, game)
    /\ last' = Call("upsert_game", <<game.game_pk>>, TRUE)
    /\ UNCHANGED <<seats, nextSeatId, tickets, nextTicketId, requests, nextRequestId,
                   alloc, addSeat, delSeat, scrape, creq, genReturned, tickets0, seatBatch, users, nextUserId>>

ScrapeGenerate ==
    /\ scrape = "upsert"
    /\ LET r == generate_tickets_for_all_seats(tickets, nextTicketId, games, seats)
       IN  /\ tickets' = r.tickets
           /\ nextTicketId' = r.next
           /\ genReturned' = genReturned + r.ret
           /\ last' = Call("generate_tickets_for_all_seats", <<>>,
                           IF r.err THEN "INTERNAL_SERVER_ERROR" ELSE r.ret)
    /\ scrape' = "idle"
    /\ UNCHANGED <<seats, nextSeatId, games, requests, nextRequestId,
                   alloc, addSeat, delSeat, creq, tickets0, seatBatch, users, nextUserId>>

\* --- api_update_ticket ---
ApiUpdateTicket(ticket_id, status, notes) ==
    /\ LET r == update_ticket_status(tickets, ticket_id, status, notes)
       IN  /\ tickets' = r.tickets
           /\ last' = Call("update_ticket_status", <<ticket_id, status>>, r.ret)
    /\ UNCHANGED <<seats, nextSeatId, games, nextTicketId, requests, nextRequestId,
                   alloc, addSeat, delSeat, scrape, creq, genReturned, tickets0, seatBatch, users, nextUserId>>

\* --- api_my_requests_create: per entry, validate then create_ticket_request
\* --- (the entries of the batch are drawn one by one)
CreateStart(user_id, n) ==
    /\ creq = None
    /\ creq' = Some([user_id |-> user_id, left |-> n])
    /\ UNCHANGED <<seats, nextSeatId, games, tickets, nextTicketId, requests,
                   nextRequestId, alloc, addSeat, delSeat, scrape, last, genReturned, tickets0, seatBatch, users, nextUserId>>

CreateStep(game_pk, seats_requested, notes) ==
    /\ creq # None
    /\ LET c == creq[1]
           r == create_ticket_request(requests, nextRequestId, games, c.user_id,
                                      game_pk, seats_requested, notes)
           args == <<c.user_id, game_pk, seats_requested, notes>>
       IN  IF seats_requested < MinSeatsRequested \/ seats_requested > MaxSeatsRequested
           THEN /\ creq' = None
                /\ last' = Call("api_my_requests_create", args, "BAD_REQUEST")
                /\ UNCHANGED <<requests, nextRequestId>>
           ELSE IF r.err
           THEN /\ creq' = None
                /\ last' = Call("api_my_requests_create", args, "INTERNAL_SERVER_ERROR")
                /\ UNCHANGED <<requests, nextRequestId>>
           ELSE /\ requests' = r.requests
                /\ nextRequestId' = r.next
                /\ creq' = IF c.left = 1 THEN None
                           ELSE Some([c EXCEPT !.left = c.left - 1])
                /\ last' = [op |-> "create_ticket_request", args |-> args, ret |-> r.ret,
                             before |-> {x.status : x \in RequestFor(requests, c.user_id,
                                                                     game_pk)}]
    /\ UNCHANGED <<seats, nextSeatId, games, tickets, nextTicketId,
                   alloc, addSeat, delSeat, scrape, genReturned, tickets0, seatBatch, users, nextUserId>>

\* the handler without its range check on seats_requested
ApiMyRequestsUpdateUnchecked(request_id, user_id, seats_requested) ==
    /\ LET r == update_ticket_request(requests, request_id, user_id, seats_requested)
       IN  /\ requests' = r.requests
           /\ last' = Call("update_ticket_request",
                           <<request_id, user_id, seats_requested>>, r.ret)
    /\ UNCHANGED <<seats, nextSeatId, games, tickets, nextTicketId, nextRequestId,
                   alloc, addSeat, delSeat, scrape, creq, genReturned, tickets0, seatBatch, users, nextUserId>>

\* --- api_my_requests_update ---
ApiMyRequestsUpdate(request_id, user_id, seats_requested) ==
    /\ LET r == update_ticket_request(requests, request_id, user_id, seats_requested)
           args == <<request_id, user_id, seats_requested>>
       IN  IF seats_requested < MinSeatsRequested \/ seats_requested > MaxSeatsRequested
           THEN /\ last' = Call("api_my_requests_update", args, "BAD_REQUEST")
                /\ UNCHANGED requests
           ELSE /\ requests' = r.requests
                /\ last' = Call("update_ticket_request", args, r.ret)
    /\ UNCHANGED <<seats, nextSeatId, games, tickets, nextTicketId, nextRequestId,
                   alloc, addSeat, delSeat, scrape, creq, genReturned, tickets0, seatBatch, users, nextUserId>>

\* --- api_my_requests_withdraw ---
ApiMyRequestsWithdraw(request_id, user_id) ==
    /\ LET r == withdraw_ticket_request(requests, request_id, user_id)
       IN  /\ requests' = r.requests
           /\ last' = Call("withdraw_ticket_request", <<request_id, user_id>>, r.ret)
    /\ UNCHANGED <<seats, nextSeatId, games, tickets, nextTicketId, nextRequestId,
                   alloc, addSeat, delSeat, scrape, creq, genReturned, tickets0, seatBatch, users, nextUserId>>

\* --- api_my_games_release ---
ApiMyGamesRelease(game_pk, user_id) ==
    /\ LET r == release_tickets_for_game(tickets, game_pk, user_id)
       IN  /\ tickets' = r.tickets
           /\ last' = Call("release_tickets_for_game", <<game_pk, user_id>>, r.ret)
    /\ UNCHANGED <<seats, nextSeatId, games, nextTicketId, requests, nextRequestId,
                   alloc, addSeat, delSeat, scrape, creq, genReturned, tickets0, seatBatch, users, nextUserId>>

\* --- api_admin_revoke ---
ApiAdminRevoke(is_admin, game_ticket_id) ==
    /\ LET r == revoke_ticket(tickets, game_ticket_id)
       IN  IF ~is_admin
           THEN /\ last' = Call("api_admin_revoke", <<game_ticket_id>>, "FORBIDDEN")
                /\ UNCHANGED tickets
           ELSE /\ tickets' = r.tickets
                /\ last' = Call("revoke_ticket", <<game_ticket_id>>, r.ret)
    /\ UNCHANGED <<seats, nextSeatId, games, nextTicketId, requests, nextRequestId,
                   alloc, addSeat, delSeat, scrape, creq, genReturned, tickets0, seatBatch, users, nextUserId>>

\* --- api_admin_allocation: allocation_summary, then list_games to look up
\* --- each row's game (a row whose game is not listed is dropped)
ApiAdminAllocation(is_admin) ==
    /\ last' = IF ~is_admin
               THEN Call("api_admin_allocation", <<>>, "FORBIDDEN")
               ELSE Call("allocation_summary", <<>>,
                         {[game_pk |-> s.game_pk, total_seats |-> s.total_seats,
                           assigned |-> s.assigned, available |-> s.available,
                           total_requested |-> s.total_requested,
                           oversubscribed |->
                               Oversubscribed(s.total_requested, s.available)] :
                             s \in {x \in allocation_summary(games, tickets, requests) :
                                       \E g \in games : g.game_pk = x.game_pk}})
    /\ UNCHANGED <<seats, nextSeatId, games, tickets, nextTicketId, requests, nextRequestId,
                   alloc, addSeat, delSeat, scrape, creq, genReturned, tickets0, seatBatch, users, nextUserId>>

\* --- api_admin_allocate: assign_ticket per entry, counting per request_id;
\* --- then update_request_approval per counted request
\* --- (the entries of the batch are drawn one by one)
RECURSIVE SumOver(_, _)
SumOver(f, D) ==
    IF D = {} THEN 0
    ELSE LET x == CHOOSE y \in D : TRUE IN f[x] + SumOver(f, D \ {x})

\* seats a call in flight may still add to one request
PendingGrant(a) == a.left + SumOver(a.approvals, DOMAIN a.approvals)

MaxSeatsApproved(R) ==
    IF R = {} THEN 0
    ELSE CHOOSE m \in {r.seats_approved : r \in R} : \A r \in R : r.seats_approved <= m

InFlight(c) == alloc[c].pc \in {"assign", "approve"}

\* the largest seats_approved a batch of n entries started now could lead to
GrantRoom(n) ==
    MaxSeatsApproved(requests) + n
      + SumOver([d \in AllocCallers |-> PendingGrant(alloc[d])],
                {d \in AllocCallers : InFlight(d)})

\* variant: the handler proceeds whatever the caller's roles
AllocStartAnyRole(c, is_admin, n) ==
    /\ ~InFlight(c)
    /\ alloc' = [alloc EXCEPT ![c] =
                   [IdleAlloc EXCEPT !.pc = IF n = 0 THEN "approve" ELSE "assign",
                                     !.left = n]]
    /\ UNCHANGED last
    /\ UNCHANGED <<seats, nextSeatId, games, tickets, nextTicketId, requests,
                   nextRequestId, addSeat, delSeat, scrape, creq, genReturned, tickets0, seatBatch, users, nextUserId>>

AllocStart(c, is_admin, n) ==
    /\ ~InFlight(c)
    /\ IF ~is_admin
       THEN /\ alloc' = [alloc EXCEPT ![c] = IdleAlloc]
            /\ last' = Call("api_admin_allocate", <<c>>, "FORBIDDEN")
       ELSE /\ alloc' = [alloc EXCEPT ![c] =
                           [IdleAlloc EXCEPT !.pc = IF n = 0 THEN "approve" ELSE "assign",
                                             !.left = n]]
            /\ UNCHANGED last
    /\ UNCHANGED <<seats, nextSeatId, games, tickets, nextTicketId, requests,
                   nextRequestId, addSeat, delSeat, scrape, creq, genReturned, tickets0, seatBatch, users, nextUserId>>

\* request_approvals.insert(rid, 1): the request is noted, its seats not counted
BumpOnce(approvals, rid) ==
    [x \in DOMAIN approvals \cup {rid} |-> IF x = rid THEN 1 ELSE approvals[x]]

\* request_approvals.entry(rid).or_insert(0) += 1
Bump(approvals, rid) ==
    [x \in DOMAIN approvals \cup {rid} |->
        IF x = rid
        THEN (IF rid \in DOMAIN approvals THEN approvals[rid] ELSE 0) + 1
        ELSE approvals[x]]

\* --- api_admin_allocate run start to end with no other request between its
\* --- statements: the assign loop (ending at the first storage error), then
\* --- the update_request_approval loop, as a function of the database and
\* --- the batch
RECURSIVE assign_loop(_, _, _, _, _)
assign_loop(T, U, assignments, assigned_count, request_approvals) ==
    IF assignments = <<>>
    THEN [tickets |-> T, count |-> assigned_count, approvals |-> request_approvals,
          err |-> FALSE]
    ELSE LET a == Head(assignments)
             r == assign_ticket(T, a.game_ticket_id, a.user_id)
         IN  IF r.ret /\ ~fk_user_exists(U, a.user_id)
             THEN [tickets |-> T, count |-> 0, approvals |-> <<>>, err |-> TRUE]
             ELSE assign_loop(r.tickets, U, Tail(assignments),
                              IF r.ret THEN assigned_count + 1 ELSE assigned_count,
                              IF r.ret /\ a.request_id # None
                              THEN Bump(request_approvals, a.request_id[1])
                              ELSE request_approvals)

RECURSIVE approve_loop(_, _)
approve_loop(R, request_approvals) ==
    IF DOMAIN request_approvals = {}
    THEN R
    ELSE LET rid == CHOOSE x \in DOMAIN request_approvals : TRUE
         IN  approve_loop(update_request_approval(R, rid, request_approvals[rid],
                                                  "approved").requests,
                          [x \in DOMAIN request_approvals \ {rid} |-> request_approvals[x]])

api_admin_allocate(T, R, U, assignments) ==
    LET a == assign_loop(T, U, assignments, 0, <<>>)
    IN  [tickets |-> a.tickets,
         requests |-> IF a.err THEN R ELSE approve_loop(R, a.approvals),
         assigned |-> a.count,
         err |-> a.err]

\* The UPDATE of assign_ticket fails when the row it would write names a user
\* that does not exist; the handler's `?` then returns 500 at once, dropping
\* assigned_count and request_approvals.
AllocAssign(c, game_ticket_id, user_id, request_id) ==
    /\ alloc[c].pc = "assign"
    /\ LET a == alloc[c]
           r == assign_ticket(tickets, game_ticket_id, user_id)
       IN  IF r.ret /\ ~fk_user_exists(users, user_id)
           THEN /\ tickets' = tickets
                /\ alloc' = [alloc EXCEPT ![c] = [IdleAlloc EXCEPT !.pc = "failed"]]
                /\ last' = Call("api_admin_allocate",
                                <<c, game_ticket_id, user_id, request_id>>,
                                "INTERNAL_SERVER_ERROR")
           ELSE /\ tickets' = r.tickets
                /\ alloc' = [alloc EXCEPT ![c] =
                      [pc |-> IF a.left = 1 THEN "approve" ELSE "assign",
                       left |-> a.left - 1,
                       approvals |-> IF r.ret /\ request_id # None
                                     THEN Bump(a.approvals, request_id[1])
                                     ELSE a.approvals,
                       count |-> IF r.ret THEN a.count + 1 ELSE a.count]]
                /\ last' = Call("assign_ticket",
                                <<c, game_ticket_id, user_id, request_id>>, r.ret)
    /\ UNCHANGED <<seats, nextSeatId, games, nextTicketId, requests, nextRequestId,
                   addSeat, delSeat, scrape, creq, genReturned, tickets0, seatBatch, users, nextUserId>>

AllocApprove(c, request_id) ==
    /\ alloc[c].pc = "approve"
    /\ request_id \in DOMAIN alloc[c].approvals
    /\ LET a == alloc[c]
           r == update_request_approval(requests, request_id, a.approvals[request_id],
                                        "approved")
       IN  /\ requests' = r.requests
           /\ alloc' = [alloc EXCEPT ![c].approvals =
                 [x \in DOMAIN a.approvals \ {request_id} |-> a.approvals[x]]]
           /\ last' = Call("update_request_approval",
                           <<request_id, a.approvals[request_id]>>, r.ret)
    /\ UNCHANGED <<seats, nextSeatId, games, tickets, nextTicketId, nextRequestId,
                   addSeat, delSeat, scrape, creq, genReturned, tickets0, seatBatch, users, nextUserId>>

AllocRespond(c) ==
    /\ alloc[c].pc = "approve"
    /\ DOMAIN alloc[c].approvals = {}
    /\ alloc' = [alloc EXCEPT ![c].pc = "done"]
    /\ last' = Call("api_admin_allocate", <<c>>, alloc[c].count)
    /\ UNCHANGED <<seats, nextSeatId, games, tickets, nextTicketId, requests,
                   nextRequestId, addSeat, delSeat, scrape, creq, genReturned, tickets0, seatBatch, users, nextUserId>>

(***************************************************************************)
(* Initial states                                                          *)
(***************************************************************************)
NoCall == Call("none", <<>>, TRUE)

\* the users table after the first n subjects signed in as members
Registered(n) ==
    /\ users = {[id |-> i, auth0_sub |-> Subjects[i], email |-> "unknown@example.com",
                 name |-> "Unknown", role |-> "member"] : i \in 1..n}
    /\ nextUserId = n + 1

IdleHandlers ==
    /\ alloc = [c \in AllocCallers |-> IdleAlloc]
    /\ addSeat = None /\ delSeat = None /\ scrape = "idle" /\ creq = None
    /\ seatBatch = None
    /\ last = NoCall

\* the database after nSeats seats were added and nGames home games imported
\* (add_seat per seat, upsert_game per game, generate_tickets_for_all_seats)
Imported(nSeats, nGames) ==
    LET G == {[game_pk |-> g, home_team_name |-> GIANTS_TEAM_NAME, status_code |-> "S"] :
                g \in 1..nGames}
        r == generate_tickets_for_all_seats({}, 1, G, 1..nSeats)
    IN  /\ seats = 1..nSeats /\ nextSeatId = nSeats + 1
        /\ games = G
        /\ tickets = r.tickets /\ nextTicketId = r.next
        /\ genReturned = r.ret

(***************************************************************************)
(* Spec: the allocation engine over an imported inventory: members create  *)
(* and withdraw requests while one admin allocates in batches and revokes. *)
(***************************************************************************)
Init ==
    /\ Imported(MaxSeat, MaxGame)
    /\ requests = {} /\ nextRequestId = 1
    /\ IdleHandlers
    /\ Registered(MaxUser)
    /\ tickets0 = tickets

Next ==
    \/ \E u \in 1..MaxUser : CreateStart(u, 1)
    \/ \E g \in 1..MaxGame, n \in {MinSeatsRequested, MaxSeatsRequested} : CreateStep(g, n, None)
    \/ \E r \in 1..(MaxUser * MaxGame), u \in 1..MaxUser : ApiMyRequestsWithdraw(r, u)
    \/ \E t \in 1..(MaxSeat * MaxGame) : ApiAdminRevoke(TRUE, t)
    \/ \E n \in 0..MaxBatch :
          GrantRoom(n) <= MaxApproved /\ AllocStart("a1", TRUE, n)
    \/ \E t \in 1..(MaxSeat * MaxGame), u \in 1..MaxUser,
          r \in RequestIdInputs(1..(MaxUser * MaxGame)) : AllocAssign("a1", t, u, r)
    \/ \E r \in 1..(MaxUser * MaxGame) : AllocApprove("a1", r)
    \/ AllocRespond("a1")

Spec == Init /\ [][Next]_vars

(***************************************************************************)
(* SpecInv: the inventory store from an empty database: seats added and    *)
(* deleted, schedule imports, and an admin assigning tickets.              *)
(***************************************************************************)
InitInv ==
    /\ seats = {} /\ nextSeatId = 1
    /\ games = {}
    /\ tickets = {} /\ nextTicketId = 1
    /\ requests = {} /\ nextRequestId = 1
    /\ IdleHandlers
    /\ Registered(1)
    /\ genReturned = 0
    /\ tickets0 = {}

NextInv ==
    \/ nextSeatId <= InvMaxSeat /\ AddSeatInsert
    \/ /\ addSeat # None
       /\ generate_tickets_for_seat(tickets, nextTicketId, games, seats, addSeat[1]).next
            <= InvMaxTicket + 1
       /\ AddSeatGenerate
    \/ \E s \in 1..InvMaxSeat : DeleteSeatTickets(s)
    \/ DeleteSeatRow
    \/ ScrapeStart
    \/ \E g \in GameInputs(1..InvMaxGame, {"S"}) : ScrapeUpsert(g)
    \/ /\ generate_tickets_for_all_seats(tickets, nextTicketId, games, seats).next
            <= InvMaxTicket + 1
       /\ ScrapeGenerate
    \/ AllocStart("a1", TRUE, 1)
    \/ \E t \in 1..InvMaxTicket : AllocAssign("a1", t, 1, None)
    \/ AllocRespond("a1")

SpecInv == InitInv /\ [][NextInv]_vars

(***************************************************************************)
(* SpecReq: the request ledger: members create (in batches), update and    *)
(* withdraw requests; an admin assigns the one ticket of each game, with   *)
(* or without a request id.                                                *)
(***************************************************************************)
InitReq ==
    /\ Imported(1, ReqMaxGame)
    /\ requests = {} /\ nextRequestId = 1
    /\ IdleHandlers
    /\ Registered(ReqMaxUser)
    /\ tickets0 = tickets

NextReq ==
    \/ \E u \in 1..ReqMaxUser, n \in 1..ReqMaxBatch : CreateStart(u, n)
    \/ \E g \in 1..ReqMaxGame, n \in SeatsInputs, nt \in NoteInputs : CreateStep(g, n, nt)
    \/ \E r \in 1..(ReqMaxUser * ReqMaxGame + 1), u \in 1..ReqMaxUser, n \in SeatsInputs :
          ApiMyRequestsUpdate(r, u, n)
    \/ \E r \in 1..(ReqMaxUser * ReqMaxGame + 1), u \in 1..ReqMaxUser :
          ApiMyRequestsWithdraw(r, u)
    \/ GrantRoom(1) <= ReqMaxApproved /\ AllocStart("a1", TRUE, 1)
    \/ \E t \in 1..ReqMaxGame, u \in 1..ReqMaxUser,
          r \in RequestIdInputs(1..(ReqMaxUser * ReqMaxGame)) : AllocAssign("a1", t, u, r)
    \/ \E r \in 1..(ReqMaxUser * ReqMaxGame) : AllocApprove("a1", r)
    \/ AllocRespond("a1")

SpecReq == InitReq /\ [][NextReq]_vars

(***************************************************************************)
(* SpecRace: two allocate calls of one entry each, both naming the first   *)
(* ticket, race each other; nothing else runs.  The inventory is imported  *)
(* and each ticket starts available or assigned.                           *)
(***************************************************************************)
\* game_tickets after some of the tickets of T were assigned: every choice
\* f of a holder (or none) per ticket
SomeAssigned(T, holders) ==
    {{IF f[t] = None THEN t
      ELSE [t EXCEPT !.assigned_to = f[t], !.status = "assigned"] : t \in T} :
        f \in [T -> {None} \cup {Some(u) : u \in holders}]}

ContestedTicket == 1

InitRace ==
    /\ \E T \in SomeAssigned(generate_tickets_for_all_seats(
                    {}, 1, {[game_pk |-> 1, home_team_name |-> GIANTS_TEAM_NAME,
                             status_code |-> "S"]}, 1..RaceMaxSeat).tickets,
                             1..RaceMaxUser) :
          /\ tickets = T
          /\ tickets0 = T
    /\ seats = 1..RaceMaxSeat /\ nextSeatId = RaceMaxSeat + 1
    /\ games = {[game_pk |-> 1, home_team_name |-> GIANTS_TEAM_NAME, status_code |-> "S"]}
    /\ nextTicketId = RaceMaxSeat + 1
    /\ genReturned = RaceMaxSeat
    /\ requests = {} /\ nextRequestId = 1
    /\ IdleHandlers
    /\ Registered(RaceMaxUser)

NextRace ==
    \/ \E c \in AllocCallers : alloc[c].pc = "idle" /\ AllocStart(c, TRUE, 1)
    \/ \E c \in AllocCallers, u \in 1..RaceMaxUser :
          AllocAssign(c, ContestedTicket, u, None)
    \/ \E c \in AllocCallers : AllocRespond(c)

SpecRace == InitRace /\ [][NextRace]_vars

(***************************************************************************)
(* SpecTickets: every writer of game_tickets over one home game: seats     *)
(* added (with their tickets generated), an admin assigning and revoking,  *)
(* members releasing, and the ticket status/notes endpoint.                *)
(***************************************************************************)
InitTickets ==
    /\ seats = {} /\ nextSeatId = 1
    /\ games = {[game_pk |-> 1, home_team_name |-> GIANTS_TEAM_NAME, status_code |-> "S"]}
    /\ tickets = {} /\ nextTicketId = 1
    /\ requests = {} /\ nextRequestId = 1
    /\ IdleHandlers
    /\ Registered(TixMaxUser)
    /\ genReturned = 0
    /\ tickets0 = {}

NextTickets ==
    \/ nextSeatId <= TixMaxSeat /\ AddSeatInsert
    \/ AddSeatGenerate
    \/ \E t \in 1..TixMaxSeat, st \in TicketStatusInputs, n \in NoteInputs :
          ApiUpdateTicket(t, st, n)
    \/ AllocStart("a1", TRUE, 1)
    \/ \E t \in 1..TixMaxSeat, u \in 1..TixMaxUser : AllocAssign("a1", t, u, None)
    \/ AllocRespond("a1")
    \/ \E t \in 1..TixMaxSeat : ApiAdminRevoke(TRUE, t)
    \/ \E u \in 1..TixMaxUser : ApiMyGamesRelease(1, u)

SpecTickets == InitTickets /\ [][NextTickets]_vars

(***************************************************************************)
(* SpecApprove: two allocate calls, one after the other or overlapping,    *)
(* each grant seats of one game to the same request of user 1, who may     *)
(* withdraw it meanwhile.                                                  *)
(***************************************************************************)
InitApprove ==
    /\ Imported(ApprMaxSeat, 1)
    /\ LET r == create_ticket_request({}, 1, games, 1, 1, MinSeatsRequested, None)
       IN  requests = r.requests /\ nextRequestId = r.next
    /\ IdleHandlers
    /\ Registered(1)
    /\ tickets0 = tickets

NextApprove ==
    \/ \E c \in AllocCallers, n \in 1..ApprMaxBatch :
          alloc[c].pc = "idle" /\ AllocStart(c, TRUE, n)
    \/ \E c \in AllocCallers, t \in 1..ApprMaxSeat : AllocAssign(c, t, 1, Some(1))
    \/ \E c \in AllocCallers : AllocApprove(c, 1)
    \/ \E c \in AllocCallers : AllocRespond(c)
    \/ ApiMyRequestsWithdraw(1, 1)

SpecApprove == InitApprove /\ [][NextApprove]_vars

(***************************************************************************)
(* SpecLedger: every operation that touches a request or a ticket, over    *)
(* one home game and one member, who creates, updates and withdraws the    *)
(* request and releases tickets; an admin allocates to the request,        *)
(* revokes and deletes seats.                                              *)
(***************************************************************************)
InitLedger ==
    /\ Imported(LedMaxSeat, 1)
    /\ requests = {} /\ nextRequestId = 1
    /\ IdleHandlers
    /\ Registered(1)
    /\ tickets0 = tickets

NextLedger ==
    \/ CreateStart(1, 1)
    \/ CreateStep(1, MinSeatsRequested, None)
    \/ ApiMyRequestsUpdate(1, 1, MaxSeatsRequested)
    \/ ApiMyRequestsWithdraw(1, 1)
    \/ \E n \in 1..LedMaxSeat :
          GrantRoom(n) <= LedMaxApproved /\ AllocStart("a1", TRUE, n)
    \/ \E t \in 1..LedMaxSeat : AllocAssign("a1", t, 1, Some(1))
    \/ AllocApprove("a1", 1)
    \/ AllocRespond("a1")
    \/ \E t \in 1..LedMaxSeat : ApiAdminRevoke(TRUE, t)
    \/ ApiMyGamesRelease(1, 1)
    \/ \E st \in 1..LedMaxSeat : DeleteSeatTickets(st)
    \/ DeleteSeatRow

SpecLedger == InitLedger /\ [][NextLedger]_vars

(***************************************************************************)
(* SpecBatch: member 1 posts one create-request batch to an empty ledger.  *)
(***************************************************************************)
InitBatch ==
    /\ Imported(1, BatchMaxGame)
    /\ requests = {} /\ nextRequestId = 1
    /\ IdleHandlers
    /\ Registered(1)
    /\ tickets0 = tickets

NextBatch ==
    \/ \E n \in 1..BatchMaxLen : last = NoCall /\ CreateStart(1, n)
    \/ \E g \in 1..BatchMaxGame, n \in SeatsInputs, nt \in NoteInputs : CreateStep(g, n, nt)

SpecBatch == InitBatch /\ [][NextBatch]_vars

(***************************************************************************)
(* SpecSummary: the admin reads the allocation summary over an imported    *)
(* schedule of one home game (1) and one away game (2) while seats are     *)
(* added, members create and withdraw requests for game 1, and the admin   *)
(* allocates.                                                              *)
(***************************************************************************)
InitSummary ==
    /\ seats = {} /\ nextSeatId = 1
    /\ games = {[game_pk |-> 1, home_team_name |-> GIANTS_TEAM_NAME, status_code |-> "S"],
                [game_pk |-> 2, home_team_name |-> OtherTeamName, status_code |-> "S"]}
    /\ tickets = {} /\ nextTicketId = 1
    /\ requests = {} /\ nextRequestId = 1
    /\ IdleHandlers
    /\ Registered(SumMaxUser)
    /\ genReturned = 0
    /\ tickets0 = {}

NextSummary ==
    \/ nextSeatId <= SumMaxSeat /\ AddSeatInsert
    \/ AddSeatGenerate
    \/ \E u \in 1..SumMaxUser : CreateStart(u, 1)
    \/ \E n \in {MinSeatsRequested, MaxSeatsRequested} : CreateStep(1, n, None)
    \/ \E r \in 1..SumMaxUser, u \in 1..SumMaxUser : ApiMyRequestsWithdraw(r, u)
    \/ GrantRoom(1) <= SumMaxApproved /\ AllocStart("a1", TRUE, 1)
    \/ \E t \in 1..SumMaxSeat, r \in RequestIdInputs(1..SumMaxUser) :
          AllocAssign("a1", t, 1, r)
    \/ \E r \in 1..SumMaxUser : AllocApprove("a1", r)
    \/ AllocRespond("a1")
    \/ \E a \in BOOLEAN : ApiAdminAllocation(a)

SpecSummary == InitSummary /\ [][NextSummary]_vars

(***************************************************************************)
(* SpecImport: from an empty database, seats are added and schedules of    *)
(* home and away games imported and re-imported (with a changed home team  *)
(* or status) while an admin assigns tickets.                              *)
(***************************************************************************)
InitImport ==
    /\ seats = {} /\ nextSeatId = 1
    /\ games = {}
    /\ tickets = {} /\ nextTicketId = 1
    /\ requests = {} /\ nextRequestId = 1
    /\ IdleHandlers
    /\ Registered(1)
    /\ genReturned = 0
    /\ tickets0 = {}

NextImport ==
    \/ nextSeatId <= ImpMaxSeat /\ AddSeatInsert
    \/ AddSeatGenerate
    \/ ScrapeStart
    \/ \E g \in GameInputs(1..ImpMaxGame, GameStatusCodes) : ScrapeUpsert(g)
    \/ ScrapeGenerate
    \/ AllocStart("a1", TRUE, 1)
    \/ \E t \in 1..(ImpMaxSeat * ImpMaxGame) : AllocAssign("a1", t, 1, None)
    \/ AllocRespond("a1")

SpecImport == InitImport /\ [][NextImport]_vars

(***************************************************************************)
(* SpecSeats: an admin adds seats, one by one (with any request body) and  *)
(* in batches over ranges around the span limit, to a schedule of one home *)
(* game.                                                                   *)
(***************************************************************************)
InitSeats ==
    /\ seats = {} /\ nextSeatId = 1
    /\ games = {[game_pk |-> 1, home_team_name |-> GIANTS_TEAM_NAME, status_code |-> "S"]}
    /\ tickets = {} /\ nextTicketId = 1
    /\ requests = {} /\ nextRequestId = 1
    /\ IdleHandlers
    /\ Registered(1)
    /\ genReturned = 0
    /\ tickets0 = {}

NextSeats ==
    \/ \E section \in SeatFieldInputs, row \in SeatFieldInputs, seat \in SeatFieldInputs :
          nextSeatId <= SeatsMaxFirst /\ ApiAddSeat(section, row, seat)
    \/ AddSeatGenerate
    \/ \E seat_start \in SeatStartInputs, seat_end \in SeatEndInputs :
          nextSeatId <= SeatsMaxFirst /\ AddSeatBatchStart(seat_start, seat_end)
    \/ AddSeatBatchInsert
    \/ AddSeatBatchGenerate

SpecSeats == InitSeats /\ [][NextSeats]_vars

(***************************************************************************)
(* SpecRefs: seats are added and deleted (a seat may be deleted between    *)
(* its insertion and the generation of its tickets) and a member creates   *)
(* requests for games of the schedule and for a game_pk that is not in it. *)
(***************************************************************************)
InitRefs ==
    /\ Imported(0, RefMaxGame)
    /\ requests = {} /\ nextRequestId = 1
    /\ IdleHandlers
    /\ Registered(1)
    /\ tickets0 = tickets

NextRefs ==
    \/ nextSeatId <= RefMaxSeat /\ AddSeatInsert
    \/ AddSeatGenerate
    \/ \E s \in 1..RefMaxSeat : DeleteSeatTickets(s)
    \/ DeleteSeatRow
    \/ CreateStart(1, 1)
    \/ \E g \in 1..(RefMaxGame + 1), nt \in NoteInputs : CreateStep(g, MinSeatsRequested, nt)

SpecRefs == InitRefs /\ [][NextRefs]_vars

(***************************************************************************)
(* SpecAdmin: over an imported inventory with one pending request of the   *)
(* registered user, callers with and without the admin role allocate       *)
(* batches (to the registered user and to a user id that is not in the     *)
(* users table until its subject signs in) and revoke; members release.    *)
(***************************************************************************)
InitAdmin ==
    /\ Imported(AdmMaxSeat, 1)
    /\ LET r == create_ticket_request({}, 1, games, 1, 1, MinSeatsRequested, None)
       IN  requests = r.requests /\ nextRequestId = r.next
    /\ IdleHandlers
    /\ Registered(AdmMaxUser)
    /\ tickets0 = tickets

NextAdmin ==
    \/ \E i \in 1..(AdmMaxUser + 1), roles \in RolesInputs :
          ResolveUser(Subjects[i], None, roles)
    \/ \E is_admin \in BOOLEAN, n \in 1..AdmMaxBatch :
          GrantRoom(n) <= AdmMaxApproved /\ AllocStart("a1", is_admin, n)
    \/ \E t \in 1..AdmMaxSeat, u \in 1..(AdmMaxUser + 1), r \in {None, Some(1)} :
          AllocAssign("a1", t, u, r)
    \/ AllocApprove("a1", 1)
    \/ AllocRespond("a1")
    \/ \E is_admin \in BOOLEAN, t \in 1..AdmMaxSeat : ApiAdminRevoke(is_admin, t)
    \/ \E u \in 1..(AdmMaxUser + 1) : ApiMyGamesRelease(1, u)

SpecAdmin == InitAdmin /\ [][NextAdmin]_vars

(***************************************************************************)
(* SpecUsers: from an empty users table, subjects sign in (every handler   *)
(* resolves its caller first) with any email and roles claims, and a       *)
(* signed-in user creates, updates and withdraws a request for game 1 and  *)
(* releases tickets.                                                       *)
(***************************************************************************)
InitUsers ==
    /\ Imported(1, 1)
    /\ requests = {} /\ nextRequestId = 1
    /\ IdleHandlers
    /\ users = {} /\ nextUserId = 1
    /\ tickets0 = tickets

NextUsers ==
    \/ \E i \in 1..UsrMaxUser, email \in EmailInputs, roles \in RolesInputs :
          ResolveUser(Subjects[i], email, roles)
    \/ \E u \in users : CreateStart(u.id, 1)
    \/ CreateStep(1, MinSeatsRequested, None)
    \/ \E u \in users, r \in 1..UsrMaxUser : ApiMyRequestsUpdate(r, u.id, MaxSeatsRequested)
    \/ \E u \in users, r \in 1..UsrMaxUser : ApiMyRequestsWithdraw(r, u.id)
    \/ \E u \in users : ApiMyGamesRelease(1, u.id)

SpecUsers == InitUsers /\ [][NextUsers]_vars

(***************************************************************************)
(* Properties                                                              *)
(***************************************************************************)
TicketById(T, id) == CHOOSE t \in T : t.id = id

RaceDone == \A c \in AllocCallers : alloc[c].pc = "done"

ContestedWasAvailable ==
    \E t \in tickets0 : t.id = ContestedTicket /\ t.status = "available"

\* what one assign_ticket(ContestedTicket, u) of caller c does to the state
AssignOutcome(c, u) ==
    LET t == TicketById(tickets, ContestedTicket)
    IN  IF t.status = "available"
        THEN /\ alloc'[c].count = alloc[c].count + 1
             /\ tickets' = (tickets \ {t}) \cup
                   {[t EXCEPT !.status = "assigned", !.assigned_to = Some(u)]}
        ELSE /\ alloc'[c].count = alloc[c].count
             /\ tickets' = tickets

\* C1: when two allocate calls each assign the same ticket T, available at the
\* start, exactly one assign_ticket returns true and the other false, and T
\* ends assigned; each assign_ticket that finds T available returns true and
\* leaves T assigned to its user, any other returns false and writes nothing.
C1_OneAssignWins ==
    /\ [](RaceDone /\ ContestedWasAvailable
            => /\ alloc["a1"].count + alloc["a2"].count = 1
               /\ TicketById(tickets, ContestedTicket).status = "assigned"
               /\ TicketById(tickets, ContestedTicket).assigned_to # None)
    /\ [][\A c \in AllocCallers, u \in 1..RaceMaxUser :
            AllocAssign(c, ContestedTicket, u, None) => AssignOutcome(c, u)]_vars

\* both calls returned: the second caller won the ticket, the first lost it
C1_Witness ==
    /\ RaceDone /\ ContestedWasAvailable
    /\ alloc["a1"].count = 0 /\ alloc["a2"].count = 1
    /\ TicketById(tickets, ContestedTicket).assigned_to = Some(RaceMaxUser)

\* C2: every GameTicket has assigned_to set iff its status is assigned, and
\* assigned_to null iff its status is available, whatever sequence of ticket
\* generation, assign, revoke, release and status/notes updates has run.
C2_AssignedToIffAssigned ==
    \A t \in tickets :
        /\ (t.assigned_to # None) <=> (t.status = "assigned")
        /\ (t.assigned_to = None) <=> (t.status = "available")

AssignedCount(T, game_pk, user_id) ==
    Cardinality({t \in T : t.game_pk = game_pk /\ t.assigned_to = Some(user_id)})

\* C3: for every TicketRequest r, r.seats_approved is at most the number of
\* GameTickets of game r.game_pk currently assigned to user r.user_id.
C3_ApprovedWithinAssigned ==
    \A r \in requests : r.seats_approved <= AssignedCount(tickets, r.game_pk, r.user_id)

StatusChanges == {<<"pending", "withdrawn">>, <<"withdrawn", "pending">>,
                  <<"pending", "approved">>}

\* C4: every change of a TicketRequest's status is pending to withdrawn,
\* withdrawn to pending, or pending to approved: never withdrawn to approved,
\* and an approved request never changes status again.
C4_StatusMachine ==
    [][\A r \in requests : \A q \in requests' :
          q.id = r.id /\ q.status # r.status => <<r.status, q.status>> \in StatusChanges]_vars

TicketsOf(T, game_pk, seat_id) == {t \in T : t.game_pk = game_pk /\ t.seat_id = seat_id}

\* a second run r2 after a first run r1 from the tickets T: nothing created,
\* one ticket per pair of want, every ticket of T still as it was
SecondRunIsNoOp(T, r1, r2, want) ==
    /\ ~r1.err /\ ~r2.err
    /\ r2.ret = 0
    /\ r2.tickets = r1.tickets /\ r2.next = r1.next
    /\ \A p \in want : Cardinality(TicketsOf(r2.tickets, p[1], p[2])) = 1
    /\ T \subseteq r2.tickets

\* C5: ticket generation is idempotent: from every reachable database, running
\* generate_tickets_for_all_seats (or generate_tickets_for_seat of a seat) twice
\* in a row, the second run returns 0, there is exactly one ticket per
\* (seat, home game) pair, and every existing ticket, assigned ones included,
\* keeps its status and assigned_to.
C5_GenerationIdempotent ==
    /\ LET r1 == generate_tickets_for_all_seats(tickets, nextTicketId, games, seats)
           r2 == generate_tickets_for_all_seats(r1.tickets, r1.next, games, seats)
       IN  SecondRunIsNoOp(tickets, r1, r2, HomeGames(games) \X seats)
    /\ \A s \in seats :
         LET r1 == generate_tickets_for_seat(tickets, nextTicketId, games, seats, s)
             r2 == generate_tickets_for_seat(r1.tickets, r1.next, games, seats, s)
         IN  SecondRunIsNoOp(tickets, r1, r2, HomeGames(games) \X {s})

\* a schedule import that ran again with nothing to add, over an inventory
\* that holds an assigned ticket
C5_Witness ==
    /\ last.op = "generate_tickets_for_all_seats" /\ last.ret = 0
    /\ \E t \in tickets : t.status = "assigned"
    /\ \A p \in HomeGames(games) \X seats : TicketsOf(tickets, p[1], p[2]) # {}

\* C6: under any interleaving of add-seat and schedule-import generation, no
\* (seat, game) pair has more than one GameTicket, and the counts the calls
\* returned add up to the number of tickets created.
C6_NoDuplicateTickets ==
    /\ \A t \in tickets : TicketsOf(tickets, t.game_pk, t.seat_id) = {t}
    /\ genReturned = nextTicketId - 1

\* an add-seat call whose generation found its tickets already created by a
\* schedule import that ran between its two statements
C6_Witness ==
    /\ last.op = "generate_tickets_for_seat" /\ last.ret = 0
    /\ \E t \in tickets : t.seat_id = last.args[1]

\* a create_ticket_request of the create handler has just completed
Created == creq # None /\ creq' # creq /\ last'.op = "create_ticket_request"

RequestIds(R) == {r.id : r \in R}

\* C7: there is at most one TicketRequest per (user, game) pair; a
\* create_ticket_request for a pair that already has a request, whatever its
\* status, creates no row and returns the existing row, same id, as updated.
C7_OneRequestPerUserGame ==
    /\ [](\A r \in requests : RequestFor(requests, r.user_id, r.game_pk) = {r})
    /\ [][Created =>
            LET old == RequestFor(requests, last'.args[1], last'.args[2])
                new == RequestFor(requests', last'.args[1], last'.args[2])
            IN  old # {} =>
                  /\ RequestIds(requests') = RequestIds(requests)
                  /\ nextRequestId' = nextRequestId
                  /\ last'.ret = new
                  /\ RequestIds(new) = RequestIds(old)]_vars

\* a create_ticket_request that found the pair's request approved and
\* returned that row
C7_Witness ==
    /\ last.op = "create_ticket_request" /\ last.before = {"approved"}
    /\ Cardinality(requests) = ReqMaxUser * ReqMaxGame
    /\ last.ret \subseteq requests

\* C8: a create_ticket_request of the same user for the same game as a
\* withdrawn request leaves that request pending, with seats_requested and
\* notes set to the new values and seats_approved as it was.
C8_Reactivation ==
    [][Created =>
         \A r \in RequestFor(requests, last'.args[1], last'.args[2]) :
            r.status = "withdrawn" =>
               /\ [r EXCEPT !.status = "pending", !.seats_requested = last'.args[3],
                            !.notes = last'.args[4]] \in requests'
               /\ \A q \in requests' : q.id = r.id =>
                     /\ q.status = "pending"
                     /\ q.seats_requested = last'.args[3]
                     /\ q.notes = last'.args[4]
                     /\ q.seats_approved = r.seats_approved]_vars

\* a withdrawn request was re-requested with other values than it had
C8_Witness ==
    /\ last.op = "create_ticket_request" /\ last.before = {"withdrawn"}
    /\ \E r \in last.ret :
          /\ r \in requests /\ r.status = "pending"
          /\ r.seats_requested = MaxSeatsRequested /\ r.notes # None

ValidSeats == MinSeatsRequested..MaxSeatsRequested

\* the guard of update and withdraw: the request exists, belongs to the user
\* and is pending
OwnPending(R, request_id, user_id) ==
    \E r \in R : r.id = request_id /\ r.user_id = user_id /\ r.status = "pending"

\* a withdraw_ticket_request / an update_ticket_request has just completed
\* (a repeated call with the same outcome changes nothing at all)
Withdrew == last' # last /\ last'.op = "withdraw_ticket_request"
Updated == last' # last /\ last'.op = "update_ticket_request"

\* C9: update_ticket_request and withdraw_ticket_request change the request
\* only when it exists, belongs to the user and is pending; otherwise they
\* return false and leave every TicketRequest unchanged.
C9_GuardedUpdateWithdraw ==
    [][/\ Withdrew =>
            /\ last'.ret = OwnPending(requests, last'.args[1], last'.args[2])
            /\ ~OwnPending(requests, last'.args[1], last'.args[2]) => requests' = requests
            /\ OwnPending(requests, last'.args[1], last'.args[2]) =>
                  \E r \in requests' : r.id = last'.args[1] /\ r.status = "withdrawn"
       /\ Updated =>
            /\ last'.ret = OwnPending(requests, last'.args[1], last'.args[2])
            /\ ~OwnPending(requests, last'.args[1], last'.args[2]) => requests' = requests
            /\ OwnPending(requests, last'.args[1], last'.args[2]) =>
                  \E r \in requests' :
                     r.id = last'.args[1] /\ r.seats_requested = last'.args[3]]_vars

\* an update by the owner of a request that is approved was refused
C9_Witness ==
    /\ last.op = "update_ticket_request" /\ last.ret = FALSE
    /\ \E r \in requests :
          r.id = last.args[1] /\ r.user_id = last.args[2] /\ r.status = "approved"

\* C10: a successful withdraw changes only the status of that one request
\* (seats_approved, seats_requested and every other request stay as they
\* were) and changes no GameTicket.
C10_WithdrawFrame ==
    [][Withdrew /\ last'.ret = TRUE =>
          /\ tickets' = tickets
          /\ \E r \in requests :
                /\ r.id = last'.args[1]
                /\ requests' = (requests \ {r}) \cup {[r EXCEPT !.status = "withdrawn"]}]_vars

\* a member who holds an assigned ticket has withdrawn the request
C10_Witness ==
    /\ last.op = "withdraw_ticket_request" /\ last.ret = TRUE
    /\ \E t \in tickets : t.status = "assigned" /\ t.assigned_to = Some(last.args[2])
    /\ \E r \in requests : r.id = last.args[1] /\ r.status = "withdrawn" /\ r.notes # None


\* a revoke_ticket / a release_tickets_for_game has just completed
\* (a repeated call with the same outcome changes nothing at all)
Revoked == last' # last /\ last'.op = "revoke_ticket"
Released == last' # last /\ last'.op = "release_tickets_for_game"

\* C11: revoke_ticket on a ticket that is not in status assigned (available,
\* or an unknown id) returns false and leaves every ticket as it was.
C11_RevokeNoOp ==
    [][Revoked /\ ~(\E t \in tickets : t.id = last'.args[1] /\ t.status = "assigned")
          => last'.ret = FALSE /\ tickets' = tickets]_vars

\* a revoke of an available ticket was refused while another ticket is assigned
C11_Witness ==
    /\ last.op = "revoke_ticket" /\ last.ret = FALSE
    /\ \E t \in tickets : t.id = last.args[1] /\ t.status = "available"
    /\ \E t \in tickets : t.status = "assigned" /\ t.assigned_to # None

\* C12: release_tickets_for_game(g, u) never changes a ticket assigned to a
\* user other than u, a ticket of a game other than g, or an available ticket.
C12_ReleaseFrame ==
    [][Released =>
         \A t \in tickets :
            (\/ t.assigned_to # Some(last'.args[2])
             \/ t.game_pk # last'.args[1]
             \/ t.status = "available") => t \in tickets']_vars

AssignStep(c) == alloc[c].pc = "assign" /\ alloc'[c] # alloc[c]
ApproveStep(c) ==
    alloc[c].pc = "approve" /\ DOMAIN alloc'[c].approvals # DOMAIN alloc[c].approvals

IsAvailable(T, id) == \E t \in T : t.id = id /\ t.status = "available"

\* C14: an allocate batch applies assign_ticket to each entry independently:
\* an entry whose ticket is available assigns it and adds 1 to the count, an
\* entry whose ticket is not available (assigned, unknown, or taken earlier in
\* the batch) writes nothing, adds nothing and the batch goes on; the call
\* returns the count.
C14_BatchCountsSuccesses ==
    [][\A c \in AllocCallers :
         /\ AssignStep(c) =>
               /\ last'.op = "assign_ticket"
               /\ alloc'[c].left = alloc[c].left - 1
               /\ alloc'[c].pc = IF alloc[c].left = 1 THEN "approve" ELSE "assign"
               /\ IF IsAvailable(tickets, last'.args[2])
                  THEN /\ alloc'[c].count = alloc[c].count + 1
                       /\ \E t \in tickets' :
                             /\ t.id = last'.args[2] /\ t.status = "assigned"
                             /\ t.assigned_to = Some(last'.args[3])
                  ELSE /\ alloc'[c].count = alloc[c].count
                       /\ tickets' = tickets
         /\ alloc[c].pc = "approve" =>
               /\ alloc'[c].count = alloc[c].count
               /\ alloc'[c].pc = "done" => last'.ret = alloc[c].count]_vars

\* the first entry of a batch named a ticket that is assigned and was skipped;
\* the batch goes on with its next entry while another ticket is available
C14_Witness ==
    /\ alloc["a1"].pc = "assign" /\ alloc["a1"].left = 1 /\ alloc["a1"].count = 0
    /\ last.op = "assign_ticket" /\ last.ret = FALSE
    /\ \E t \in tickets : t.id = last.args[2] /\ t.status = "assigned"
    /\ \E t \in tickets : t.status = "available"

ApprovalsOf(a, rid) == IF rid \in DOMAIN a.approvals THEN a.approvals[rid] ELSE 0

\* C15: an allocate batch counts, per request id, its successful assignments
\* that carry the id, and after the loop adds each count to that request's
\* seats_approved and sets its status to approved, once per request; skipped
\* entries count for nothing and the call writes no other request.
C15_ApprovalPerRequest ==
    [][\A c \in AllocCallers :
         /\ AssignStep(c) =>
               /\ requests' = requests
               /\ \A rid \in 1..(MaxUser * MaxGame) :
                     ApprovalsOf(alloc'[c], rid) =
                        ApprovalsOf(alloc[c], rid) +
                           (IF last'.ret /\ last'.args[4] = Some(rid) THEN 1 ELSE 0)
         /\ ApproveStep(c) =>
               \E rid \in DOMAIN alloc[c].approvals :
                  /\ DOMAIN alloc'[c].approvals = DOMAIN alloc[c].approvals \ {rid}
                  /\ \A r \in requests :
                        IF r.id = rid
                        THEN [r EXCEPT !.seats_approved = r.seats_approved
                                                          + alloc[c].approvals[rid],
                                       !.status = "approved"] \in requests'
                        ELSE r \in requests'
                  /\ Cardinality(requests') = Cardinality(requests)
         /\ alloc[c].pc = "approve" /\ alloc'[c].pc = "done" =>
               DOMAIN alloc[c].approvals = {} /\ requests' = requests]_vars

\* one batch granted two seats to a request: its approval was applied once
C15_Witness ==
    /\ last.op = "update_request_approval" /\ last.args[2] = 2 /\ last.ret = TRUE
    /\ \E r \in requests :
          /\ r.id = last.args[1] /\ r.seats_approved = 2 /\ r.status = "approved"
          /\ AssignedCount(tickets, r.game_pk, r.user_id) = 2


\* seats caller c's call has added to request rid so far: its successful
\* assignments less those still waiting in request_approvals
Applied(c, rid) == alloc[c].count - ApprovalsOf(alloc[c], rid)

\* C16: approval increments are additive: with two allocate calls granting
\* seats to the same request, one after the other or overlapping, its
\* seats_approved is at every moment the sum of what each call has applied (so
\* a + b once both have completed), and its status is approved once any
\* increment is applied.
C16_ApprovalsAdditive ==
    \A r \in requests :
        /\ r.seats_approved = Applied("a1", r.id) + Applied("a2", r.id)
        /\ r.seats_approved > 0 => r.status = "approved"
        /\ RaceDone => r.seats_approved = alloc["a1"].count + alloc["a2"].count

\* both calls are past their assign loops at once: the first has applied its
\* two seats, the second still holds its one seat to apply
C16_Witness ==
    /\ alloc["a1"].pc = "approve" /\ alloc["a1"].count = 2
    /\ DOMAIN alloc["a1"].approvals = {}
    /\ alloc["a2"].pc = "approve" /\ ApprovalsOf(alloc["a2"], 1) = 1
    /\ \E r \in requests : r.id = 1 /\ r.seats_approved = 2 /\ r.status = "approved"


\* C17: seats_approved of a request never decreases, whatever operation runs
\* (create, update, withdraw, allocate, revoke, release, delete seat), and it
\* is 0 when the request is first created.
C17_ApprovedMonotone ==
    [][/\ \A r \in requests : \E q \in requests' :
             q.id = r.id /\ q.seats_approved >= r.seats_approved
       /\ \A q \in requests' :
             q.id \notin RequestIds(requests) => q.seats_approved = 0]_vars

\* a request was granted two seats, and a revoke has since taken one back:
\* seats_approved stayed
C17_Witness ==
    /\ last.op = "revoke_ticket" /\ last.ret = TRUE
    /\ \E r \in requests :
          /\ r.seats_approved = 2
          /\ AssignedCount(tickets, r.game_pk, r.user_id) < 2


\* C18: a create-request batch with an entry whose seats_requested is outside
\* 1..4 is rejected before any mutation: once the batch is rejected, the
\* ledger (empty before the batch) holds no request of the batch.
C18_BatchRejectedUnchanged ==
    last.op = "api_my_requests_create" /\ last.ret = "BAD_REQUEST" => requests = {}


\* the create handler has just processed one entry / the update handler has
\* just answered (a repeated update with the same outcome changes nothing)
CreateEntryStep == creq # None /\ creq' # creq
UpdateCallStep ==
    last' # last /\ last'.op \in {"api_my_requests_update", "update_ticket_request"}

\* C19: creating or updating a request with seats_requested outside 1..4 is
\* rejected and changes no request, any value in 1..4 passes the check and is
\* stored; every stored TicketRequest has seats_requested in 1..4.
C19_SeatsRequestedRange ==
    /\ [](\A r \in requests : r.seats_requested \in ValidSeats)
    /\ [][/\ CreateEntryStep =>
               IF last'.args[3] \in ValidSeats
               THEN /\ last'.op = "create_ticket_request"
                    /\ \E r \in last'.ret :
                          r \in requests' /\ r.seats_requested = last'.args[3]
               ELSE /\ last'.op = "api_my_requests_create"
                    /\ last'.ret = "BAD_REQUEST" /\ requests' = requests
          /\ UpdateCallStep =>
               IF last'.args[3] \in ValidSeats
               THEN last'.op = "update_ticket_request"
               ELSE /\ last'.op = "api_my_requests_update"
                    /\ last'.ret = "BAD_REQUEST" /\ requests' = requests]_vars

\* the owner's update of a pending request from 4 seats to 5 was rejected
C19_Witness ==
    /\ last.op = "api_my_requests_update" /\ last.ret = "BAD_REQUEST"
    /\ last.args[3] = MaxSeatsRequested + 1
    /\ \E r \in requests :
          /\ r.id = last.args[1] /\ r.user_id = last.args[2]
          /\ r.status = "pending" /\ r.seats_requested = MaxSeatsRequested


EngineOps == {"assign_ticket", "revoke_ticket", "release_tickets_for_game"}

\* C20: a GameTicket's status is always available or assigned, and its status
\* and assigned_to change only as the effect of assign_ticket (allocate),
\* revoke_ticket or release_tickets_for_game, never of another operation.
C20_EngineSoleWriter ==
    /\ [](\A t \in tickets : t.status \in {"available", "assigned"})
    /\ [][\A t \in tickets : \A q \in tickets' :
             q.id = t.id /\ (q.status # t.status \/ q.assigned_to # t.assigned_to)
                => last'.op \in EngineOps]_vars


(***************************************************************************)
(* Seats: deleting                                                         *)
(***************************************************************************)
DeleteCallStarts == delSeat = None /\ delSeat' # None
DeleteCallEnds == delSeat # None /\ delSeat' = None

\* C21: a delete_seat call on an existing seat ends returning true, with
\* the seat removed and no ticket left that refers to it; a call on a seat
\* id that does not exist ends returning false, and neither of its
\* statements changes a seat or a ticket.
C21_DeleteSeat ==
    [][/\ (DeleteCallStarts /\ delSeat'[1] \notin seats) =>
              (tickets' = tickets /\ seats' = seats)
       /\ DeleteCallEnds =>
              LET s == delSeat[1]
              IN  /\ last'.op = "delete_seat"
                  /\ IF s \in seats
                     THEN /\ last'.ret = TRUE
                          /\ s \notin seats'
                          /\ \A t \in tickets' : t.seat_id # s
                     ELSE /\ last'.ret = FALSE
                          /\ seats' = seats /\ tickets' = tickets]_vars


(***************************************************************************)
(* Allocation engine: assign followed by revoke                            *)
(***************************************************************************)
\* an assign_ticket has just completed
Assigned == last' # last /\ last'.op = "assign_ticket"

\* C22: on every available ticket T and for every user u, assign_ticket
\* returns true and leaves T assigned with assigned_to = u (nothing else
\* changes); revoke_ticket on the result returns true and leaves T available
\* with assigned_to null and every other column and row as before the assign
\* (so the table is the one before the assign whenever T's assigned_to was
\* null then).  Every assign on an available ticket and every revoke on an
\* assigned ticket that the handlers run has these outcomes.
C22_AssignThenRevoke ==
    /\ [](\A t \in tickets : t.status = "available" =>
            \A u \in 1..TixMaxUser :
               LET a == assign_ticket(tickets, t.id, u)
                   r == revoke_ticket(a.tickets, t.id)
               IN  /\ a.ret
                   /\ a.tickets = (tickets \ {t}) \cup
                        {[t EXCEPT !.status = "assigned", !.assigned_to = Some(u)]}
                   /\ r.ret
                   /\ r.tickets = (tickets \ {t}) \cup {[t EXCEPT !.assigned_to = None]}
                   /\ (t.assigned_to = None => r.tickets = tickets))
    /\ [][(Assigned /\ IsAvailable(tickets, last'.args[2])) =>
             LET t == TicketById(tickets, last'.args[2])
             IN  /\ last'.ret = TRUE
                 /\ tickets' = (tickets \ {t}) \cup
                      {[t EXCEPT !.status = "assigned",
                                 !.assigned_to = Some(last'.args[3])]}]_vars
    /\ [][(Revoked /\ \E t \in tickets : t.id = last'.args[1] /\ t.status = "assigned") =>
             LET t == TicketById(tickets, last'.args[1])
             IN  /\ last'.ret = TRUE
                 /\ tickets' = (tickets \ {t}) \cup
                      {[t EXCEPT !.status = "available", !.assigned_to = None]}]_vars

\* the admin's allocate call assigned a ticket and a revoke then succeeded,
\* leaving every ticket available with no holder
C22_Witness ==
    /\ last.op = "revoke_ticket" /\ last.ret = TRUE
    /\ alloc["a1"].count = 1
    /\ tickets # {}
    /\ \A t \in tickets : t.status = "available" /\ t.assigned_to = None


(***************************************************************************)
(* Allocation summary                                                      *)
(***************************************************************************)
\* an allocation summary has just been returned to an admin
SummaryCalled == last' # last /\ last'.op = "allocation_summary"

\* ids of the pending requests of R for game_pk, and their seats_requested
PendingIds(R, game_pk) ==
    {r.id : r \in {x \in R : x.game_pk = game_pk /\ x.status = "pending"}}
SeatsRequestedOf(R) == [id \in RequestIds(R) |-> (CHOOSE r \in R : r.id = id).seats_requested]

PendingSeats(R, game_pk) == SumOver(SeatsRequestedOf(R), PendingIds(R, game_pk))

\* C23: every row of a returned summary has total_requested equal to the
\* sum of seats_requested over the pending requests of its game (approved
\* and withdrawn requests add nothing); when an allocate call approves a
\* request that was pending, the total_requested of its game's row drops by
\* that request's seats_requested.
C23_TotalRequestedPendingOnly ==
    /\ [][SummaryCalled =>
             \A row \in last'.ret :
                row.total_requested = PendingSeats(requests, row.game_pk)]_vars
    /\ [][(ApproveStep("a1") /\ last'.op = "update_request_approval") =>
             \A r \in requests :
                (r.id = last'.args[1] /\ r.status = "pending") =>
                   \A row \in allocation_summary(games, tickets, requests) :
                      row.game_pk = r.game_pk =>
                         [row EXCEPT !.total_requested = @ - r.seats_requested]
                            \in allocation_summary(games', tickets', requests')]_vars

\* a summary counted the one pending request of a game and left out an
\* approved or withdrawn request for more seats
C23_Witness ==
    /\ last.op = "allocation_summary"
    /\ \E row \in last.ret :
          /\ row.total_requested = MinSeatsRequested
          /\ \E r \in requests : /\ r.game_pk = row.game_pk /\ r.status = "approved"
                                 /\ r.seats_requested = MaxSeatsRequested
          /\ \E r \in requests : r.game_pk = row.game_pk /\ r.status = "pending"

\* C24: the oversubscribed flag of every row of a returned summary is true
\* exactly when the row's total_requested is strictly greater than its
\* available count.
C24_OversubscribedIffGreater ==
    [][SummaryCalled =>
          \A row \in last'.ret :
             row.oversubscribed <=> (row.total_requested > row.available)]_vars

\* a summary row with as many seats requested as available (at least one),
\* not flagged
C24_Witness ==
    /\ last.op = "allocation_summary"
    /\ \E row \in last.ret :
          /\ row.available >= 1
          /\ row.total_requested = row.available
          /\ ~row.oversubscribed

\* C25: a returned summary has exactly one row for every home game and no
\* row for any other game; each row's total_seats is the number of tickets
\* of its game.
C25_RowPerHomeGame ==
    [][SummaryCalled =>
          /\ {row.game_pk : row \in last'.ret} = HomeGames(games)
          /\ \A g \in HomeGames(games) :
                Cardinality({row \in last'.ret : row.game_pk = g}) = 1
          /\ \A row \in last'.ret :
                row.total_seats = Cardinality({t \in tickets : t.game_pk = row.game_pk})]_vars


(***************************************************************************)
(* Inventory: home games and schedule imports                              *)
(***************************************************************************)
\* C26: every ticket belongs to a game whose home team is the managed team.
C26_TicketsOfHomeGamesOnly ==
    \A t \in tickets : t.game_pk \in HomeGames(games)

\* a game was imported again after tickets had been generated and assigned,
\* while another game of the schedule is an away game
C26_Witness ==
    /\ last.op = "upsert_game"
    /\ \E t \in tickets : t.game_pk = last.args[1] /\ t.status = "assigned"
    /\ \E g \in games : g.home_team_name # GIANTS_TEAM_NAME
    /\ \E g \in games : g.home_team_name = GIANTS_TEAM_NAME /\ g.status_code = "F"


\* the generate_tickets_for_all_seats that ends a schedule import has just run
ImportCompletes == scrape = "upsert" /\ scrape' = "idle"

\* C27: when a schedule import completes, every pair of a seat existing then
\* and a home game has exactly one ticket; the tickets its backfill created
\* are available with no holder, and neither its upserts nor its backfill
\* change or remove a ticket that existed before.
C27_ImportBackfill ==
    [][/\ ImportCompletes =>
            /\ \A s \in seats', g \in HomeGames(games') :
                  Cardinality(TicketsOf(tickets', g, s)) = 1
            /\ tickets \subseteq tickets'
            /\ \A t \in tickets' \ tickets :
                  t.status = "available" /\ t.assigned_to = None
       /\ games' # games => tickets' = tickets]_vars

\* an import that discovered a home game backfilled its tickets while a
\* ticket of a game imported earlier stays assigned
C27_Witness ==
    /\ last.op = "generate_tickets_for_all_seats" /\ last.ret >= 1
    /\ Cardinality(HomeGames(games)) = ImpMaxGame
    /\ \E t \in tickets : t.status = "assigned" /\ t.assigned_to # None
    /\ \E t \in tickets : t.status = "available"


(***************************************************************************)
(* Seats: adding                                                           *)
(***************************************************************************)
\* an api_add_seat_batch call has just passed or failed its range checks /
\* has just returned its seats
BatchCallStarts ==
    seatBatch = None /\ (seatBatch' # None \/ (last' # last /\ last'.op = "api_add_seat_batch"))
BatchCallReturns ==
    seatBatch # None /\ seatBatch' = None /\ last'.op = "api_add_seat_batch" /\ last'.ret = "OK"

\* the range of the call that has just started
BatchStart == IF seatBatch' # None THEN seatBatch'[1].seat_start ELSE last'.args[1]
BatchEnd == IF seatBatch' # None THEN seatBatch'[1].seat_end ELSE last'.args[2]

\* the call is refused with nothing created / the returned seats are one
\* per number of a..b, in order, each a distinct row of the seats table
BatchRefused ==
    /\ seatBatch' = None
    /\ last'.op = "api_add_seat_batch" /\ last'.ret = "BAD_REQUEST"
    /\ seats' = seats /\ tickets' = tickets
OneSeatPerNumber(created, a, b) ==
    /\ Len(created) = b - a + 1
    /\ \A i \in 1..Len(created) : created[i].seat = ToString(a + i - 1)
    /\ \A i \in 1..Len(created) : created[i].id \in seats'
    /\ \A i, j \in 1..Len(created) : created[i].id = created[j].id => i = j

\* C28 as stated: a batch seat add is refused, with no seat and no ticket
\* created, when seat_start > seat_end or when the range holds 50 seats or
\* more; every other range is accepted and ends with one seat per number.
C28_BatchRangeAsStated ==
    [][/\ BatchCallStarts =>
            IF BatchStart > BatchEnd \/ BatchEnd - BatchStart + 1 >= BatchSpanLimit
            THEN BatchRefused
            ELSE seatBatch' # None
       /\ BatchCallReturns =>
            OneSeatPerNumber(last'.seats, last'.args[1], last'.args[2])]_vars

\* C28 amended: a batch seat add is refused, with no seat and no ticket
\* created, when seat_start > seat_end or when the range holds more than 50
\* seats (seat_end - seat_start >= 50); every other range, one of exactly 50
\* seats included, is accepted and ends with one seat per number.
C28_BatchRange ==
    [][/\ BatchCallStarts =>
            IF BatchStart > BatchEnd \/ BatchEnd - BatchStart + 1 > BatchSpanLimit
            THEN BatchRefused
            ELSE seatBatch' # None
       /\ BatchCallReturns =>
            OneSeatPerNumber(last'.seats, last'.args[1], last'.args[2])]_vars

\* a batch over a range of exactly 50 seats returned its 50 seats, each with
\* its ticket
C28_Witness ==
    /\ last.op = "api_add_seat_batch" /\ last.ret = "OK"
    /\ Len(last.seats) = BatchSpanLimit
    /\ \A i \in 1..Len(last.seats) :
          \E t \in tickets : t.seat_id = last.seats[i].id

\* an api_add_seat call has just been refused or has just inserted its seat
AddSeatCalled ==
    addSeat = None /\ last' # last /\ last'.op \in {"api_add_seat", "add_seat"}

\* C29: api_add_seat with an empty (or missing) section, row or seat is
\* refused and creates no seat and no ticket; with all three non-empty it
\* creates exactly one seat.
C29_AddSeatValidation ==
    [][AddSeatCalled =>
          IF \E f \in {last'.args[1], last'.args[2], last'.args[3]} : f \in {None, Some("")}
          THEN /\ last'.op = "api_add_seat"
               /\ seats' = seats /\ tickets' = tickets /\ addSeat' = None
          ELSE /\ seats \subseteq seats'
               /\ Cardinality(seats' \ seats) = 1]_vars


(***************************************************************************)
(* Unknown ids                                                             *)
(***************************************************************************)
\* the generate_tickets_for_seat of an api_add_seat call has just run
AddSeatGenerated == addSeat # None /\ addSeat' = None

\* C30: generate_tickets_for_seat for a seat id that does not exist creates
\* no ticket and create_ticket_request for a game_pk that does not exist
\* creates no request, and each is reported as a validation failure (400);
\* every ticket refers to an existing seat and game, every request to an
\* existing game.
C30_UnknownIdsRejected ==
    /\ [](/\ \A t \in tickets : t.seat_id \in seats /\ \E g \in games : g.game_pk = t.game_pk
          /\ \A r \in requests : \E g \in games : g.game_pk = r.game_pk)
    /\ [][(AddSeatGenerated /\ addSeat[1] \notin seats) =>
             /\ tickets' = tickets
             /\ last'.op = "api_add_seat" /\ last'.ret = "BAD_REQUEST"]_vars
    /\ [][(CreateEntryStep /\ ~(\E g \in games : g.game_pk = last'.args[2])) =>
             /\ requests' = requests
             /\ last'.op = "api_my_requests_create" /\ last'.ret = "BAD_REQUEST"]_vars


(***************************************************************************)
(* Users                                                                   *)
(***************************************************************************)
\* a resolve_user has just completed
Resolved == last'.op = "upsert_user" /\ last' # last

UsersOf(U, auth0_sub) == {u \in U : u.auth0_sub = auth0_sub}
RoleOfClaims(roles) == IF "admin" \in roles THEN "admin" ELSE "member"

C32_NoSelfEscalation ==
    /\ [][users' # users => (Resolved /\ last'.ret \in users')]_vars
    /\ [][Resolved =>
             /\ (last'.ret.role = "admin") <=> ("admin" \in last'.args[3])
             /\ \A u \in users' : u.auth0_sub # last'.args[1] => u \in users]_vars
    /\ [][(last' # last /\ last'.op # "upsert_user") => users' = users]_vars

\* a subject that had signed in as admin signed in again without the admin
\* role, is a member now and has a pending request, while no user is admin
C32_Witness ==
    /\ last.op = "create_ticket_request"
    /\ \E u \in users : u.id = last.args[1] /\ u.role = "member" /\ u.email = "b@example.com"
    /\ \A u \in users : u.role = "member"
    /\ Cardinality(users) = UsrMaxUser


HeldBy(T, game_ticket_id, u) ==
    \E t \in T : t.id = game_ticket_id /\ t.status = "assigned" /\ t.assigned_to = Some(u)

\* C34: on every ticket that is assigned to a user u, assign_ticket for any
\* user returns false and changes no ticket; every assign the allocate
\* handler runs on such a ticket answers false and leaves the table, and so
\* the holder, as it was, and every assign that answers false changes no
\* ticket.
C34_FailedAssignKeepsHolder ==
    /\ [](\A t \in tickets, u, u2 \in 1..TixMaxUser :
            HeldBy(tickets, t.id, u) =>
               LET a == assign_ticket(tickets, t.id, u2)
               IN  ~a.ret /\ a.tickets = tickets)
    /\ [][(Assigned /\ \E u \in 1..TixMaxUser : HeldBy(tickets, last'.args[2], u)) =>
             (last'.ret = FALSE /\ tickets' = tickets)]_vars
    /\ [][(Assigned /\ last'.ret = FALSE) => tickets' = tickets]_vars

\* an assign for one user was refused on a ticket another user holds
C34_Witness ==
    /\ last.op = "assign_ticket" /\ last.ret = FALSE
    /\ \E u \in 1..TixMaxUser : u # last.args[3] /\ HeldBy(tickets, last.args[2], u)


(***************************************************************************)
(* Allocation engine: holders are users                                    *)
(***************************************************************************)
UserIds == {u.id : u \in users}

\* C35: in every reachable state every ticket whose status is assigned has
\* an assigned_to that is the id of a row of the users table.
C35_AssignedToExistingUser ==
    \A t \in tickets : t.status = "assigned" =>
       (t.assigned_to # None /\ t.assigned_to[1] \in UserIds)

\* What the allocate handler itself keeps: every assigned_to it leaves in the
\* table is the id of a user, and an assign for a user id that is not in the
\* users table writes no ticket.
AllocateBindsToUsers ==
    /\ [](\A t \in tickets : t.assigned_to # None => t.assigned_to[1] \in UserIds)
    /\ [][\A t \in 1..AdmMaxSeat, u \in 1..(AdmMaxUser + 1), r \in {None, Some(1)} :
            (AllocAssign("a1", t, u, r) /\ u \notin UserIds) =>
               tickets' = tickets]_vars

\* an assign to a user id that is not in the table was answered with an
\* error while an earlier entry of the batch had bound a ticket to the
\* registered user
AllocateToUnknownUserFailed ==
    /\ alloc["a1"].pc = "failed"
    /\ last.op = "api_admin_allocate" /\ Len(last.args) = 4
    /\ last.args[3] \notin UserIds
    /\ \E t \in tickets : t.status = "assigned" /\ t.assigned_to = Some(1)


(***************************************************************************)
(* Request ledger: create on an existing request                           *)
(***************************************************************************)
\* C36: a create_ticket_request that finds a request of the pair rewrites
\* that one row and no other: seats_approved stays, seats_requested and
\* notes take the new values, and the status stays as it was (pending stays
\* pending, approved stays approved) unless it was withdrawn, which becomes
\* pending.
C36_CreateOnExisting ==
    [][Created =>
         \A old \in RequestFor(requests, last'.args[1], last'.args[2]) :
            LET new == [old EXCEPT !.seats_requested = last'.args[3],
                                   !.notes = last'.args[4],
                                   !.status = IF old.status = "withdrawn" THEN "pending"
                                              ELSE old.status]
            IN  /\ requests' = (requests \ {old}) \cup {new}
                /\ new.seats_approved = old.seats_approved
                /\ old.status = "pending" => new.status = "pending"
                /\ old.status = "approved" => new.status = "approved"
                /\ last'.ret = {new}]_vars

\* an approved request was requested again with other seats and notes: it is
\* still approved, with its seats_approved, and carries the new values
C36_Witness ==
    /\ last.op = "create_ticket_request" /\ last.before = {"approved"}
    /\ \E r \in last.ret :
          /\ r \in requests /\ r.status = "approved" /\ r.seats_approved >= 1
          /\ r.seats_requested = MaxSeatsRequested /\ r.notes # None


(***************************************************************************)
(* Allocation engine: approvals on every exit of the allocate handler      *)
(***************************************************************************)
\* the allocate call of c ends with this step (response or error)
AllocCallEnds(c) == InFlight(c) /\ alloc'[c].pc \notin {"assign", "approve"}

\* C37: when an allocate call ends, by its response or by a storage error
\* part-way through the batch, every request through which the call has
\* assigned k >= 1 tickets has had its seats_approved increased by k and is
\* approved: no count the call has collected is left unrecorded.
C37_ApprovalsRecordedOnExit ==
    [][\A c \in AllocCallers :
         AllocCallEnds(c) =>
            \A rid \in DOMAIN alloc[c].approvals :
               \E old \in requests, new \in requests' :
                  /\ old.id = rid /\ new.id = rid
                  /\ new.seats_approved = old.seats_approved + alloc[c].approvals[rid]
                  /\ new.status = "approved"]_vars


(***************************************************************************)
(* Allocation engine: callers without the admin role                       *)
(***************************************************************************)
\* C38: an allocate call by a caller whose claims lack the admin role is
\* answered FORBIDDEN, leaves every ticket and every request as it was and
\* starts no batch (so none of its entries is ever assigned); a revoke call
\* by such a caller is answered FORBIDDEN and leaves every ticket and every
\* request as it was; the resolve_user that opens either call writes the
\* users table only.
C38_NonAdminRefused ==
    /\ [][\A c \in AllocCallers, n \in 1..AdmMaxBatch :
            AllocStart(c, FALSE, n) =>
               /\ last'.op = "api_admin_allocate" /\ last'.ret = "FORBIDDEN"
               /\ alloc'[c].pc = "idle"
               /\ tickets' = tickets /\ requests' = requests]_vars
    /\ [][\A t \in 1..AdmMaxSeat :
            ApiAdminRevoke(FALSE, t) =>
               /\ last'.op = "api_admin_revoke" /\ last'.ret = "FORBIDDEN"
               /\ tickets' = tickets /\ requests' = requests]_vars
    /\ [][Resolved => (tickets' = tickets /\ requests' = requests)]_vars
    /\ [][tickets' # tickets =>
            \/ \E c \in AllocCallers : alloc[c].pc = "assign"
            \/ last'.op \in {"revoke_ticket", "release_tickets_for_game"}]_vars

\* a caller without the admin role was refused a revoke of a ticket that
\* is still assigned, after its allocate call had been refused too
C38_Witness ==
    /\ last.op = "api_admin_revoke" /\ last.ret = "FORBIDDEN"
    /\ \E t \in tickets : t.id = last.args[1] /\ t.status = "assigned"
    /\ alloc["a1"].pc = "idle"
    /\ \E u \in users : u.role = "member" /\ u.id = AdmMaxUser + 1


(***************************************************************************)
(* Inventory conservation                                                  *)
(***************************************************************************)
TicketKeys(T) == {<<t.id, t.game_pk, t.seat_id>> : t \in T}

\* What the allocation statements keep: assign_ticket, revoke_ticket and
\* release_tickets_for_game leave the set of tickets (id, game, seat) as it
\* was, and with it the number of tickets of every game.
AllocationKeepsInventory ==
    [][(Assigned \/ Revoked \/ Released) => TicketKeys(tickets') = TicketKeys(tickets)]_vars

\* C39: assign, batchAssign, revoke and releaseForUser create and delete no
\* ticket, and in every reachable state every row of the allocation summary
\* has total_seats = assigned + available.
C39_InventoryConserved ==
    /\ [](\A row \in allocation_summary(games, tickets, requests) :
            row.total_seats = row.assigned + row.available)
    /\ AllocationKeepsInventory


(***************************************************************************)
(* Allocation engine: order of the entries of a batch                      *)
(***************************************************************************)
AllocateEntries(users_ids) ==
    [game_ticket_id : 1..AdmMaxSeat, user_id : users_ids, request_id : {None, Some(1)}]

OrderIndependent(entries) ==
    \A e1, e2 \in entries :
       e1.game_ticket_id # e2.game_ticket_id =>
          api_admin_allocate(tickets, requests, users, <<e1, e2>>)
             = api_admin_allocate(tickets, requests, users, <<e2, e1>>)

\* What holds: batches of distinct tickets whose entries all name users of
\* the users table give the same count, tickets and requests in both orders.
OrderIndependentForKnownUsers == OrderIndependent(AllocateEntries(UserIds))

\* C40: from every reachable state, a batch of two entries that name
\* distinct tickets gives the same outcome (error or assigned count), the
\* same tickets and the same requests in both orders of its entries.
C40_OrderIndependent == OrderIndependent(AllocateEntries(1..(AdmMaxUser + 1)))

====
